---- MODULE Spec2Model ----
(***************************************************************************)
(* A model of the versioned storage engine of acorn-io/mink (package db): *)
(* the append-only record log (GormDB), the store strategy (Strategy) and *)
(* the watch engine (watch loop, broadcaster, per-watcher merge).         *)
(*                                                                         *)
(* Every database statement is one atomic step on the committed table     *)
(* (read-committed); a store call is therefore a read step followed by an *)
(* insert step, and several callers interleave between the two.           *)
(* Timestamps are modelled by whether they are set.  GormDB's queries     *)
(* (possibleIDs) group by (namespace, name) only, so the logical key of   *)
(* the model is (namespace, name).                                         *)
(***************************************************************************)
EXTENDS Naturals, Integers, Sequences, FiniteSets, TLC

\* ------------------------------------------------------------------ bounds

\* the number of rows the store calls of a run may insert
MaxId == 2

\* ------------------------------------------------------------- input sets

Callers == {"c1", "c2"}
Names == {"a", "b"}
NS == "ns"
LabelVals == {"l0", "l1"}
SpecVals == {"s0", "s1"}
StatusVals == {"t0", "t1"}

\* ---------------------------------------------------------- decimal strings

Digit(d) ==
  CASE d = 0 -> "0" [] d = 1 -> "1" [] d = 2 -> "2" [] d = 3 -> "3"
    [] d = 4 -> "4" [] d = 5 -> "5" [] d = 6 -> "6" [] d = 7 -> "7"
    [] d = 8 -> "8" [] d = 9 -> "9"

RECURSIVE FormatUint(_)
\* strconv.FormatUint(n, 10)
FormatUint(n) ==
  IF n < 10 THEN Digit(n) ELSE FormatUint(n \div 10) \o Digit(n % 10)

\* the decimal strings of the ids the model can hold
DecimalRange == 0 .. (MaxId + 16)

\* strconv.ParseUint / strconv.Atoi succeed exactly on a decimal string
IsDecimal(s) == \E n \in DecimalRange : FormatUint(n) = s

ParseUint(s) == CHOOSE n \in DecimalRange : FormatUint(n) = s

\* ------------------------------------------------------------------ records

\* the zero value of datatypes.JSON
NoBytes == ""

EmptyMeta == [labels |-> "", finalizers |-> FALSE]

\* the zero Record
ZeroRecord ==
  [id |-> 0, name |-> "", namespace |-> "", uid |-> 0, generation |-> 0,
   previous |-> 0, create |-> FALSE, created |-> 0, deleted |-> FALSE,
   removed |-> FALSE, garbage |-> FALSE, latest |-> FALSE, partition |-> "",
   metadata |-> EmptyMeta, data |-> NoBytes, status |-> NoBytes]

\* an API object as a caller holds it
ZeroObject ==
  [name |-> "", namespace |-> "", uid |-> 0, resourceVersion |-> "",
   generation |-> 0, labels |-> "", finalizers |-> FALSE,
   deletionTimestamp |-> FALSE, spec |-> NoBytes, status |-> "t0"]

VARIABLES
  rows,      \* the table: id -> Record, the committed rows
  seq,       \* the last id the database sequence handed out
  seqEnd,    \* the value of seq at which the run's store calls stop inserting
  pc,        \* per caller: where its store call stands
  call,      \* per caller: the call's arguments, pending record and result
  trigger,   \* the capacity-1 trigger channel of the watch loop (0 or 1)
  compaction, \* g.compaction, the in-memory compaction horizon
  started,   \* GormDB.Start has run: broadcaster and watch loop are up
  readers,   \* the number of read locks held on g.compactionLock
  loop,      \* the watch loop: position, init, lastID, g.lastID, rows read
  bc,        \* the broadcaster: consumers, its lock, the item being fanned out
  w,         \* per watcher: the Watch call, its goroutines and its channels
  reader,    \* the client of Get, GetToList and List: its call and results
  gc,        \* the gc goroutine: position, lastSuccessCompaction, its ids
  partitionIDRequired,  \* the strategy's configuration flag
  dbDown,    \* the database refuses every statement (connection lost)
  ctxDone,   \* the context given to GormDB.Start is cancelled
  recovery   \* deleteCorrupted, run by the factory before the strategy exists

\* the watch engine's state, which the store calls leave alone
watchVars == <<started, readers, loop, bc, w>>

Ids == DOMAIN rows

Max(S) == CHOOSE x \in S : \A y \in S : y <= x
Min(S) == CHOOSE x \in S : \A y \in S : x <= y

\* the ids of S in ascending order
RECURSIVE SortedSeq(_)
SortedSeq(S) ==
  IF S = {} THEN <<>> ELSE <<Min(S)>> \o SortedSeq(S \ {Min(S)})

\* ------------------------------------------------------------- query layer

\* a selector with one requirement: a label requirement on the label the
\* model carries, or the field requirement metadata.name = value (op
\* "name"); op "none" is the empty selector
SelOps == {"none", "eq", "neq", "in", "notin", "exists", "notexists", "name"}

NoSel == [op |-> "none", vals |-> {}]

\* Criteria with every field at its zero value
ZeroCriteria ==
  [name |-> "", nsSet |-> FALSE, namespace |-> "", after |-> 0, before |-> 0,
   noResourceVersion |-> FALSE, limit |-> 0, sel |-> NoSel,
   includeDeleted |-> FALSE, includeGC |-> FALSE,
   ignoreCompactionCheck |-> FALSE]

\* the table's MAX(id), 0 on an empty table
getMaxID == IF Ids = {} THEN 0 ELSE Max(Ids)

\* the value of "before" the subquery uses, also the result's resourceVersion
ResolveBefore(c) ==
  IF c.noResourceVersion THEN 0
  ELSE IF c.before = 0 THEN getMaxID ELSE c.before

\* the rows the grouping subquery ranges over
PossibleRow(c, r) ==
  /\ (c.nsSet => r.namespace = c.namespace)
  /\ (IF c.name # "" THEN r.name = c.name ELSE r.name # "")
  /\ (c.after # 0 => r.id > c.after)
  /\ (ResolveBefore(c) > 0 => r.id <= ResolveBefore(c))
  /\ (~c.includeGC => ~r.garbage)

\* select namespace, name, max(id) ... group by namespace, name
possibleIDs(c) ==
  { i \in Ids :
      /\ PossibleRow(c, rows[i])
      /\ \A j \in Ids :
           (/\ PossibleRow(c, rows[j])
            /\ rows[j].namespace = rows[i].namespace
            /\ rows[j].name = rows[i].name) => j <= i }

\* one label requirement pushed to SQL over metadata.labels; an absent label
\* is SQL NULL, and a comparison with NULL selects nothing.  A field
\* requirement on metadata.name is not pushed to SQL.
LabelWhere(sel, meta) ==
  CASE sel.op = "none" -> TRUE
    [] sel.op = "eq" -> meta.labels # "" /\ meta.labels \in sel.vals
    [] sel.op = "in" -> meta.labels # "" /\ meta.labels \in sel.vals
    [] sel.op = "notin" -> meta.labels # "" /\ meta.labels \notin sel.vals
    [] sel.op = "neq" -> meta.labels # "" /\ meta.labels \in sel.vals
    [] sel.op = "exists" -> meta.labels # ""
    [] sel.op = "notexists" -> meta.labels = ""
    [] sel.op = "name" -> TRUE

\* the predicates GormDB.Get puts on the joined row
GetWhere(c, r) ==
  /\ (~c.includeDeleted => ~r.removed)
  /\ LabelWhere(c.sel, r.metadata)

Take(s, n) == IF n = 0 \/ Len(s) <= n THEN s ELSE SubSeq(s, 1, n)

\* validateCriteria: the version window against the compaction horizon
validateCriteria(before, after, horizon) ==
  ~ \/ (before # 0 /\ before < horizon)
    \/ (after # 0 /\ after < horizon)

\* GormDB.Get / find: the selected rows in id order, the resourceVersion and
\* whether the request was refused as expired
Get(c, horizon) ==
  LET ids == { i \in possibleIDs(c) : GetWhere(c, rows[i]) }
      expired == ~c.ignoreCompactionCheck
                   /\ ~validateCriteria(c.before, c.after, horizon)
  IN  IF expired
        THEN [records |-> <<>>, resourceVersion |-> 0, err |-> "expired"]
        ELSE [records |-> Take([k \in 1 .. Cardinality(ids) |->
                                   rows[SortedSeq(ids)[k]]], c.limit),
              resourceVersion |-> ResolveBefore(c), err |-> "none"]

\* ----------------------------------------------------------- store strategy

\* uuid.NewUUID: an identifier no row and no pending record carries
UsedUIDs ==
  {rows[i].uid : i \in Ids} \cup {call[p].rec.uid : p \in Callers}

\* a generator that does not look at the identifiers in use: it hands out
\* one identifier again and again
NewUUIDRepeated ==
  Min({u \in 1 .. (Cardinality(UsedUIDs) + 1) : TRUE})

NewUUID ==
  Min({u \in 1 .. (Cardinality(UsedUIDs) + 1) : u \notin UsedUIDs})

\* time.Now: the clock, read as the count of ids handed out so far plus one
Now == seq + 1

\* objectToRecord that also strips the labels from the metadata blob
objectToRecordNoLabels(obj) ==
  [ZeroRecord EXCEPT
     !.name = obj.name, !.namespace = obj.namespace,
     !.uid = NewUUID, !.generation = 1, !.previous = 0, !.created = Now,
     !.metadata = [labels |-> "", finalizers |-> obj.finalizers],
     !.data = obj.spec, !.status = obj.status]

\* objectToRecord: the server-managed keys leave the metadata blob, the rest
\* of the object is split into the three blobs
objectToRecord(obj) ==
  [ZeroRecord EXCEPT
     !.name = obj.name, !.namespace = obj.namespace,
     !.uid = NewUUID, !.generation = 1, !.previous = 0, !.created = Now,
     !.metadata = [labels |-> obj.labels, finalizers |-> obj.finalizers],
     !.data = obj.spec, !.status = obj.status]

\* recordToMap + recordIntoObject: the map built from the record is decoded
\* into obj; a key the map does not hold leaves obj's field as it was
recordIntoObject(rec, obj) ==
  [obj EXCEPT
     !.uid = rec.uid,
     !.resourceVersion = FormatUint(rec.id),
     !.name = rec.name, !.namespace = rec.namespace,
     !.generation = rec.generation,
     !.deletionTimestamp = IF rec.deleted THEN TRUE ELSE @,
     !.labels = IF rec.metadata.labels # "" THEN rec.metadata.labels ELSE @,
     !.finalizers = IF rec.metadata.finalizers THEN TRUE ELSE @,
     !.spec = IF rec.data # NoBytes THEN rec.data ELSE @,
     !.status = IF rec.status # NoBytes THEN rec.status ELSE @]

\* the criteria of Strategy.getExisting and of Strategy.create's lookup
ExistingCriteria(namespace, name) ==
  [ZeroCriteria EXCEPT
     !.name = name, !.nsSet = TRUE, !.namespace = namespace, !.limit = 1,
     !.noResourceVersion = TRUE, !.includeDeleted = TRUE, !.includeGC = TRUE]

\* a table without the unique index on previous
NoUniqueIndex(rec) == FALSE

\* the unique index on previous (NULLs are distinct from each other)
UniqueViolation(rec) ==
  rec.previous # 0 /\ \E i \in Ids : rows[i].previous = rec.previous

\* the primary key, for a record that names its id
PrimaryViolation(rec) == rec.id # 0 /\ rec.id \in Ids

\* the id the database gives the record
InsertId(rec) == IF rec.id # 0 THEN rec.id ELSE seq + 1

\* the latest flag Insert writes on the new row
InsertLatest(rec) == rec.name # ""

\* GormDB.Insert, committed: latest = false on the previous row, then the
\* new row
InsertRows(rec) ==
  LET id == InsertId(rec)
      new == [rec EXCEPT !.id = id, !.latest = InsertLatest(rec)]
  IN  [i \in Ids \cup {id} |->
         IF i = id THEN new
         ELSE IF rec.previous # 0 /\ i = rec.previous
                THEN [rows[i] EXCEPT !.latest = FALSE]
                ELSE rows[i]]

\* triggerWatchLoop: a non-blocking send on the capacity-1 channel
triggerWatchLoop == 1

\* what a refused call keeps of the object it was given
Presented(obj) ==
  [ZeroObject EXCEPT !.name = obj.name, !.namespace = obj.namespace,
                     !.uid = obj.uid,
                     !.resourceVersion = obj.resourceVersion]

\* the message of newResourceVersionMismatch's conflict
OptimisticLockErrorMsg ==
  "the object has been modified; please apply your changes to the latest version and try again"

\* the message of the conflict translateDuplicateEntryErr makes of a refused
\* insert
DuplicateEntryMsg ==
  "object has been modified, please apply your changes to the latest version and try again"

IdleCall ==
  [op |-> "none", partition |-> "", obj |-> ZeroObject, rec |-> ZeroRecord,
   res |-> "", msg |-> "", out |-> ZeroObject, newId |-> 0, tip |-> 0]

\* the partition id a request context carries ("" when it carries none);
\* the rows of the table all belong to the one partition
Partitions == {"", "p1"}

\* a strategy that lets every context through
PartitionRefusedNever(partitionID) == FALSE

\* the guard every operation of the strategy starts with
PartitionRefused(partitionID) == partitionIDRequired /\ partitionID = ""

\* the id of the row a lookup found, 0 when it found none
KeyTip(existing) == IF Len(existing) = 0 THEN 0 ELSE existing[1].id

\* Strategy.create without the already-exists check
AlreadyExistsNever(existing) == FALSE

\* Strategy.create refuses a key whose most recent row is not removed
AlreadyExists(existing) == Len(existing) = 1 /\ ~existing[1].removed

\* the predecessor Strategy.create chains the new row to
CreatePrevious(existing) ==
  IF Len(existing) = 1 THEN existing[1].id ELSE 0

\* Strategy.Create up to the insert: the lookup and the new record; when
\* the lookup fails the call returns the error
CreateCall(p, partitionID, obj) ==
  /\ pc[p] = "idle"
  /\ LET existing == Get(ExistingCriteria(obj.namespace, obj.name),
                         compaction).records
         record == [objectToRecord(obj) EXCEPT
                      !.create = TRUE, !.status = NoBytes,
                      !.partition = partitionID]
         refused == [IdleCall EXCEPT !.op = "create",
                                     !.partition = partitionID,
                                     !.obj = Presented(obj)]
         c == [refused EXCEPT !.tip = KeyTip(existing)]
     IN  IF PartitionRefused(partitionID)
           THEN /\ pc' = [pc EXCEPT ![p] = "done"]
                /\ call' = [call EXCEPT ![p] =
                     [refused EXCEPT !.res = "partition"]]
         ELSE IF dbDown
           THEN /\ pc' = [pc EXCEPT ![p] = "done"]
                /\ call' = [call EXCEPT ![p] = [refused EXCEPT !.res = "error"]]
         ELSE IF AlreadyExists(existing)
           THEN /\ pc' = [pc EXCEPT ![p] = "done"]
                /\ call' = [call EXCEPT ![p] = [c EXCEPT !.res = "exists"]]
           ELSE /\ pc' = [pc EXCEPT ![p] = "insert"]
                /\ call' = [call EXCEPT ![p] =
                     [c EXCEPT !.obj = obj, !.rec =
                        [record EXCEPT !.previous = CreatePrevious(existing)]]]
  /\ UNCHANGED <<rows, seq, seqEnd, trigger, compaction, watchVars,
                 reader, gc, partitionIDRequired,
                 dbDown, ctxDone, recovery>>

\* Strategy.update without the optimistic-lock check
VersionMatchesAny(obj, existing) == TRUE

\* the optimistic-lock check of Strategy.update
VersionMatches(obj, existing) ==
  obj.resourceVersion = FormatUint(existing.id)

\* storage.NewUIDPreconditions(existing.UID).Check
UIDMatches(obj, existing) == obj.uid = existing.uid

\* a spec path that never raises the generation
NextGenerationNever(newRecord, existing) == existing.generation

\* a spec path that raises the generation on every update
NextGenerationAlways(newRecord, existing) == existing.generation + 1

\* the generation Strategy.update gives the new row on the spec path
NextGeneration(newRecord, existing) ==
  IF newRecord.metadata = existing.metadata /\ newRecord.data = existing.data
    THEN existing.generation
    ELSE existing.generation + 1

\* Strategy.update whose status path also takes the deletion from obj
UpdateRecordStatusDeletes(status, obj, existing) ==
  LET r0 == [objectToRecord(obj) EXCEPT
               !.previous = existing.id, !.created = existing.created,
               !.deleted = existing.deleted, !.removed = existing.removed,
               !.uid = existing.uid, !.partition = existing.partition]
      r1 == [r0 EXCEPT !.deleted = @ \/ obj.deletionTimestamp]
      r2 == [r1 EXCEPT !.removed = @ \/ (r1.deleted /\ ~obj.finalizers)]
  IN  IF status
        THEN [r2 EXCEPT !.generation = existing.generation,
                        !.data = existing.data,
                        !.metadata = existing.metadata]
        ELSE [r2 EXCEPT
                !.generation = NextGeneration(r2, existing),
                !.status = IF NextGeneration(r2, existing) = existing.generation
                             THEN @ ELSE existing.status]

\* Strategy.update that sets removed with deleted, finalizers or not
UpdateRecordIgnoringFinalizers(status, obj, existing) ==
  LET r0 == [objectToRecord(obj) EXCEPT
               !.previous = existing.id, !.created = existing.created,
               !.deleted = existing.deleted, !.removed = existing.removed,
               !.uid = existing.uid, !.partition = existing.partition]
      r1 == [r0 EXCEPT !.deleted = @ \/ obj.deletionTimestamp]
      r2 == [r1 EXCEPT !.removed = @ \/ r1.deleted]
  IN  IF status
        THEN [r0 EXCEPT !.generation = existing.generation,
                        !.data = existing.data,
                        !.metadata = existing.metadata]
        ELSE [r2 EXCEPT
                !.generation = NextGeneration(r2, existing),
                !.status = IF NextGeneration(r2, existing) = existing.generation
                             THEN @ ELSE existing.status]

\* the record Strategy.update builds from obj and the existing row
UpdateRecord(status, obj, existing) ==
  LET r0 == [objectToRecord(obj) EXCEPT
               !.previous = existing.id, !.created = existing.created,
               !.deleted = existing.deleted, !.removed = existing.removed,
               !.uid = existing.uid, !.partition = existing.partition]
      r1 == [r0 EXCEPT !.deleted = @ \/ obj.deletionTimestamp]
      r2 == [r1 EXCEPT !.removed = @ \/ (r1.deleted /\ ~obj.finalizers)]
  IN  IF status
        THEN [r0 EXCEPT !.generation = existing.generation,
                        !.data = existing.data,
                        !.metadata = existing.metadata]
        ELSE [r2 EXCEPT
                !.generation = NextGeneration(r2, existing),
                !.status = IF NextGeneration(r2, existing) = existing.generation
                             THEN @ ELSE existing.status]

\* Strategy.Update / UpdateStatus / Delete up to the insert
UpdateCall(p, partitionID, status, obj) ==
  /\ pc[p] = "idle"
  /\ LET existing == Get(ExistingCriteria(obj.namespace, obj.name),
                         compaction).records
         refused == [IdleCall EXCEPT
                       !.op = IF status THEN "status" ELSE "update",
                       !.partition = partitionID,
                       !.obj = Presented(obj)]
         c == [refused EXCEPT !.tip = KeyTip(existing)]
     IN  IF PartitionRefused(partitionID)
           THEN /\ pc' = [pc EXCEPT ![p] = "done"]
                /\ call' = [call EXCEPT ![p] =
                     [refused EXCEPT !.res = "partition"]]
         ELSE IF dbDown
           THEN /\ pc' = [pc EXCEPT ![p] = "done"]
                /\ call' = [call EXCEPT ![p] = [refused EXCEPT !.res = "error"]]
         ELSE IF Len(existing) = 0
           THEN /\ pc' = [pc EXCEPT ![p] = "done"]
                /\ call' = [call EXCEPT ![p] = [c EXCEPT !.res = "notfound"]]
         ELSE IF ~VersionMatches(obj, existing[1])
           THEN /\ pc' = [pc EXCEPT ![p] = "done"]
                /\ call' = [call EXCEPT ![p] =
                     [c EXCEPT !.res = "conflict", !.msg = OptimisticLockErrorMsg]]
         ELSE IF ~UIDMatches(obj, existing[1])
           THEN /\ pc' = [pc EXCEPT ![p] = "done"]
                /\ call' = [call EXCEPT ![p] =
                     [c EXCEPT !.res = "conflict", !.msg = "uid precondition"]]
           ELSE /\ pc' = [pc EXCEPT ![p] = "insert"]
                /\ call' = [call EXCEPT ![p] =
                     [c EXCEPT !.obj = obj,
                               !.rec = UpdateRecord(status, obj, existing[1])]]
  /\ UNCHANGED <<rows, seq, seqEnd, trigger, compaction, watchVars,
                 reader, gc, partitionIDRequired,
                 dbDown, ctxDone, recovery>>

\* GormDB.Insert for a store call, and the call's return.  A refused insert
\* rolls back after it consumed a sequence id; with the database down the
\* call returns the error.
InsertStep(p) ==
  /\ pc[p] = "insert"
  /\ IF dbDown
       THEN /\ UNCHANGED <<rows, seq>>
            /\ call' = [call EXCEPT ![p].res = "error",
                                    ![p].obj = Presented(@),
                                    ![p].rec = ZeroRecord]
     ELSE IF UniqueViolation(call[p].rec)
       THEN /\ seq' = seq + 1
            /\ rows' = rows
            /\ call' = [call EXCEPT ![p].res = "conflict",
                                    ![p].msg = DuplicateEntryMsg,
                                    ![p].obj = Presented(@),
                                    ![p].rec = ZeroRecord]
       ELSE /\ seq < seqEnd
            /\ seq' = seq + 1
            /\ rows' = InsertRows(call[p].rec)
            /\ call' = [call EXCEPT
                 ![p].res = "ok", ![p].newId = seq + 1,
                 ![p].rec = ZeroRecord,
                 ![p].out = recordIntoObject(
                              [call[p].rec EXCEPT !.id = seq + 1],
                              call[p].obj)]
  /\ pc' = [pc EXCEPT ![p] = "done"]
  /\ trigger' = triggerWatchLoop
  /\ UNCHANGED <<seqEnd, compaction, watchVars,
                 reader, gc, partitionIDRequired,
                 dbDown, ctxDone, recovery>>

\* the caller takes the result and may call again
Return(p) ==
  /\ pc[p] = "done"
  /\ pc' = [pc EXCEPT ![p] = "idle"]
  /\ call' = [call EXCEPT ![p] = IdleCall]
  /\ UNCHANGED <<rows, seq, seqEnd, trigger, compaction, watchVars,
                 reader, gc, partitionIDRequired,
                 dbDown, ctxDone, recovery>>

\* Strategy.Get: the key's most recent row that is not garbage, decoded, or
\* not-found
StrategyGet(namespace, name) ==
  LET g == Get([ZeroCriteria EXCEPT
                  !.name = name, !.nsSet = TRUE, !.namespace = namespace,
                  !.noResourceVersion = TRUE], compaction)
  IN  IF g.err # "none" THEN [err |-> g.err, obj |-> ZeroObject]
      ELSE IF Len(g.records) = 0 THEN [err |-> "notfound", obj |-> ZeroObject]
      ELSE [err |-> "none", obj |-> recordIntoObject(g.records[1], ZeroObject)]

\* Strategy.GetToList: the list's resourceVersion and the key's row as its
\* one item, or no item
GetToList(namespace, name) ==
  LET g == Get([ZeroCriteria EXCEPT
                  !.name = name, !.nsSet = TRUE, !.namespace = namespace],
               compaction)
      failed(e) == [err |-> e, items |-> <<>>, continue |-> "",
                    resourceVersion |-> ""]
  IN  IF g.err # "none" THEN failed(g.err)
      ELSE [err |-> "none",
            items |-> IF Len(g.records) = 0 THEN <<>>
                      ELSE <<recordIntoObject(g.records[1], ZeroObject)>>,
            continue |-> "",
            resourceVersion |-> FormatUint(g.resourceVersion)]

\* ------------------------------------------------------------- store calls

\* the payloads (labels, finalizers, spec, status) callers submit
Payload(l, f, d, t) == [labels |-> l, finalizers |-> f, spec |-> d, status |-> t]

\* concurrent callers submit one payload: their runs differ in the order of
\* the reads and inserts, the sequential runs in what is written
RacePayloads == { Payload("l0", FALSE, "s0", "t0") }

RaceNames == {"a", "b"}

\* the objects a caller submits to Create
CreateObjs(names, payloads) ==
  { [ZeroObject EXCEPT !.name = n, !.namespace = NS, !.labels = x.labels,
                       !.finalizers = x.finalizers, !.spec = x.spec,
                       !.status = x.status] :
      n \in names, x \in payloads }

\* the objects a caller submits to Update, UpdateStatus and Delete: a version
\* of a key it has read (or that version without its uid), with the
\* caller's changes
UpdateObjs(payloads, uids, deleting) ==
  { [recordIntoObject(rows[i], ZeroObject) EXCEPT
       !.uid = IF u THEN @ ELSE 0, !.labels = x.labels,
       !.finalizers = x.finalizers, !.spec = x.spec, !.status = x.status,
       !.deletionTimestamp = deleting] :
      i \in {j \in Ids : rows[j].name # ""}, u \in uids, x \in payloads }

Create(p, names, payloads) ==
  \E obj \in CreateObjs(names, payloads) : CreateCall(p, "", obj)

Update(p, payloads, uids) ==
  \E obj \in UpdateObjs(payloads, uids, FALSE) : UpdateCall(p, "", FALSE, obj)

UpdateStatus(p, payloads, uids, deleting) ==
  \E d \in deleting :
    \E obj \in UpdateObjs(payloads, uids, d) : UpdateCall(p, "", TRUE, obj)

\* Strategy.Delete is Update with an object that carries a deletion timestamp
Delete(p, payloads, uids) ==
  \E obj \in UpdateObjs(payloads, uids, TRUE) : UpdateCall(p, "", FALSE, obj)

\* -------------------------------------------------------------- read calls

\* opts.Predicate.Matches: labels.Requirement.Matches on the object's label
\* (Equals and In need the label, NotEquals and NotIn also accept an object
\* without it), or the field requirement on the object's name
Matches(sel, obj) ==
  CASE sel.op = "none" -> TRUE
    [] sel.op = "eq" -> obj.labels # "" /\ obj.labels \in sel.vals
    [] sel.op = "in" -> obj.labels # "" /\ obj.labels \in sel.vals
    [] sel.op = "neq" -> obj.labels = "" \/ obj.labels \notin sel.vals
    [] sel.op = "notin" -> obj.labels = "" \/ obj.labels \notin sel.vals
    [] sel.op = "exists" -> obj.labels # ""
    [] sel.op = "notexists" -> obj.labels = ""
    [] sel.op = "name" -> obj.name \in sel.vals

\* the continuation token: the JSON of cont{ID} (base64 is one-to-one)
EncodeCont(id) == "{\"id\":" \o FormatUint(id) \o "}"

IsCont(token) == \E n \in DecimalRange : EncodeCont(n) = token

DecodeCont(token) == CHOOSE n \in DecimalRange : EncodeCont(n) = token

\* the Criteria Strategy.list builds: one more than the limit is asked for,
\* a continuation resumes after its id and skips the compaction check
ListCriteria(namespace, limit, continue, sel) ==
  LET after == IF continue = "" THEN 0 ELSE DecodeCont(continue)
  IN  [ZeroCriteria EXCEPT
         !.nsSet = namespace # "", !.namespace = namespace,
         !.limit = IF limit # 0 THEN limit + 1 ELSE 0,
         !.sel = sel, !.after = after,
         !.ignoreCompactionCheck = after # 0]

\* the objects of the records the predicate accepts, in the records' order
RECURSIVE MatchingObjects(_, _)
MatchingObjects(records, sel) ==
  IF records = <<>> THEN <<>>
  ELSE LET obj == recordIntoObject(Head(records), ZeroObject)
       IN  (IF Matches(sel, obj) THEN <<obj>> ELSE <<>>)
             \o MatchingObjects(Tail(records), sel)

\* Strategy.list: the page, its continuation and its resourceVersion.  With
\* a full page and no object left after the predicate, objs[0:len(objs)-1]
\* is out of range and the call panics.
list(namespace, limit, continue, sel) ==
  LET c == ListCriteria(namespace, limit, continue, sel)
      g == Get(c, compaction)
      objs == MatchingObjects(g.records, sel)
      full == c.limit # 0 /\ Len(g.records) = c.limit
      failed(e) == [err |-> e, items |-> <<>>, continue |-> "",
                    resourceVersion |-> ""]
  IN  IF continue # "" /\ ~IsCont(continue) THEN failed("badcontinue")
      ELSE IF g.err # "none" THEN failed(g.err)
      ELSE IF full /\ objs = <<>> THEN failed("panic")
      ELSE [err |-> "none",
            items |-> IF full THEN SubSeq(objs, 1, Len(objs) - 1) ELSE objs,
            continue |-> IF full
                           THEN EncodeCont(g.records[Len(g.records) - 1].id)
                           ELSE "",
            resourceVersion |-> FormatUint(g.resourceVersion)]

\* the reader before its first call; name is the name Get was asked for,
\* pages are the list results so far, tip the table's MAX(id) at the first
\* page
IdleReader ==
  [pc |-> "idle", op |-> "none", partition |-> "", name |-> "",
   sel |-> NoSel, limit |-> 0,
   cont |-> "", pages |-> <<>>, err |-> "none", obj |-> ZeroObject,
   tip |-> 0]

\* what the reader keeps of one call of Strategy.List
AfterList(rd, res) ==
  IF res.err # "none"
    THEN [rd EXCEPT !.pc = "done", !.err = res.err, !.cont = ""]
    ELSE [rd EXCEPT !.pc = IF res.continue = "" THEN "done" ELSE "paging",
                    !.cont = res.continue,
                    !.pages = Append(@, res)]

\* Strategy.Get: the reader keeps the object or the error
GetCall(partitionID, name) ==
  /\ reader.pc = "idle"
  /\ reader' =
       LET rd == [reader EXCEPT !.pc = "done", !.op = "get",
                                !.partition = partitionID, !.name = name]
       IN  IF PartitionRefused(partitionID)
             THEN [rd EXCEPT !.err = "partition"]
             ELSE LET got == StrategyGet(NS, name)
                  IN  [rd EXCEPT !.err = got.err, !.obj = got.obj]
  /\ UNCHANGED <<rows, seq, seqEnd, pc, call, trigger, compaction, watchVars,
                 gc, partitionIDRequired,
                 dbDown, ctxDone, recovery>>

\* Strategy.GetToList: the reader keeps the list or the error
GetToListCall(partitionID, name) ==
  /\ reader.pc = "idle"
  /\ reader' =
       LET rd == [reader EXCEPT !.pc = "done", !.op = "gettolist",
                                !.partition = partitionID, !.name = name]
       IN  IF PartitionRefused(partitionID)
             THEN [rd EXCEPT !.err = "partition"]
             ELSE LET got == GetToList(NS, name)
                  IN  IF got.err # "none" THEN [rd EXCEPT !.err = got.err]
                      ELSE [rd EXCEPT !.pages = <<got>>]
  /\ UNCHANGED <<rows, seq, seqEnd, pc, call, trigger, compaction, watchVars,
                 gc, partitionIDRequired,
                 dbDown, ctxDone, recovery>>

\* Strategy.List, first page
List(partitionID, limit, sel) ==
  /\ reader.pc = "idle"
  /\ reader' =
       LET rd == [reader EXCEPT !.op = "list", !.partition = partitionID,
                                !.sel = sel, !.limit = limit]
       IN  IF PartitionRefused(partitionID)
             THEN [rd EXCEPT !.pc = "done", !.err = "partition"]
             ELSE AfterList([rd EXCEPT !.tip = getMaxID],
                            list(NS, limit, "", sel))
  /\ UNCHANGED <<rows, seq, seqEnd, pc, call, trigger, compaction, watchVars,
                 gc, partitionIDRequired,
                 dbDown, ctxDone, recovery>>

\* Strategy.List with the continuation of the page before
ListContinue(partitionID) ==
  /\ reader.pc = "paging"
  /\ reader' =
       LET rd == [reader EXCEPT !.partition = partitionID]
       IN  IF PartitionRefused(partitionID)
             THEN [rd EXCEPT !.pc = "done", !.err = "partition", !.cont = ""]
             ELSE AfterList(rd, list(NS, rd.limit, rd.cont, rd.sel))
  /\ UNCHANGED <<rows, seq, seqEnd, pc, call, trigger, compaction, watchVars,
                 gc, partitionIDRequired,
                 dbDown, ctxDone, recovery>>

\* the reader takes the result and may call again
ReaderReturn ==
  /\ reader.pc = "done"
  /\ reader' = IdleReader
  /\ UNCHANGED <<rows, seq, seqEnd, pc, call, trigger, compaction, watchVars,
                 gc, partitionIDRequired,
                 dbDown, ctxDone, recovery>>

\* ------------------------------------------------------------ watch engine

\* MINK_COMPACT_RETAIN and MINK_DELETE_RETAIN as the model runs with them,
\* and the batch sizes of the compact and delete steps
compactRetainCount == 1

deleteRetainCount == 1

compactBatchSize == 1000

deleteBatchSize == 1000

\* the table's lowest id that is not garbage, 0 when there is none
getMinID ==
  IF { i \in Ids : ~rows[i].garbage } = {} THEN 0
  ELSE Min({ i \in Ids : ~rows[i].garbage })

\* the gc goroutine before Start: lastSuccess is lastSuccessCompaction, next
\* nextCompactionID, ids what a statement selected for the next one
IdleGC == [pc |-> "off", lastSuccess |-> 0, next |-> 0, ids |-> {}]

Watchers == {"w1"}

\* the page size of the catch-up read
catchUpLimit == 1000

\* the watch loop before Start; shared is g.lastID
IdleLoop ==
  [pc |-> "off", init |-> TRUE, lastID |-> 0, shared |-> 0, batch |-> <<>>]

\* NewBroadcaster: no consumers; item and todo are the fan-out in progress,
\* closes the number of close(b.C), stopped says that Start has returned
IdleBroadcaster ==
  [consumers |-> {}, locked |-> FALSE, item |-> <<>>, todo |-> {},
   closed |-> FALSE, closes |-> 0, stopped |-> FALSE]

\* a watcher that has not called Watch.  buf is sub.C (capacity 1), queue the
\* catch-up records not yet sent on initialize, held the record Concat has
\* taken while nothing receives from merged, delivered what arrived on
\* result; subTip and retTip are the table's tip when Watch subscribed and
\* the sequence when it returned; cancelled is the watch's context, ready
\* the client receiving on result, out the record the merger is blocked on
\* while the client does not receive, subCloses the number of close(sub.C)
IdleWatch ==
  [pc |-> "none", partition |-> "", after |-> 0, err |-> "none",
   buf |-> <<>>, subClosed |-> FALSE,
   catchUp |-> "off", cuAfter |-> 0, cuBefore |-> 0, more |-> FALSE,
   queue |-> <<>>, initClosed |-> FALSE,
   concat |-> "init", held |-> <<>>,
   merger |-> "off", lastID |-> 0, resultClosed |-> FALSE,
   delivered |-> <<>>, subTip |-> 0, retTip |-> 0,
   cancelled |-> FALSE, ready |-> TRUE, out |-> <<>>, subCloses |-> 0]

\* GormDB.since: the rows above id, in id order
since(id) ==
  LET ids == { i \in Ids : i > id }
  IN  [k \in 1 .. Cardinality(ids) |-> rows[SortedSeq(ids)[k]]]

\* GormDB.Start: everything is assumed compacted, the background tasks start
Start ==
  /\ ~started
  /\ started' = TRUE
  /\ compaction' = getMaxID
  /\ loop' = [loop EXCEPT !.pc = "wait"]
  /\ gc' = [gc EXCEPT !.pc = IF compactRetainCount = 0 THEN "off" ELSE "wait"]
  /\ UNCHANGED <<rows, seq, seqEnd, pc, call, trigger, readers, bc, w,
                 reader, partitionIDRequired,
                 dbDown, ctxDone, recovery>>

\* a statement of a background task fails: the database is down, or the
\* context the statement carries is cancelled
DbFails == dbDown \/ ctxDone

\* readEvents up to the batch: on the first pass lastID is the table's
\* MAX(id); then the rows above lastID
ReadFrom == IF loop.init THEN getMaxID ELSE loop.lastID

\* the watch loop after readEvents has read its batch: with nothing to send
\* it returns at once; when getMaxID or since fails, watchLoop logs the
\* error and goes back to its select with init and lastID as they were
readEvents ==
  IF DbFails THEN loop
  ELSE IF since(ReadFrom) = <<>>
    THEN [loop EXCEPT !.init = FALSE, !.lastID = ReadFrom,
                      !.shared = ReadFrom]
    ELSE [loop EXCEPT !.pc = "send", !.lastID = ReadFrom,
                      !.batch = since(ReadFrom)]

\* the two timers of watchLoop's select, in seconds
watchLoopSleep == 2

bookmarkSleep == 60

\* both timers are made when the select begins, so the one with the
\* shorter period is the one that fires (either, when the periods are equal)
SelectTimers ==
  { timer \in {"poll", "bookmark"} :
      \/ timer = "poll" /\ watchLoopSleep <= bookmarkSleep
      \/ timer = "bookmark" /\ bookmarkSleep <= watchLoopSleep }

\* the bookmark record: nothing but the id
BookmarkRecord(lastID) == [ZeroRecord EXCEPT !.id = lastID]

\* g.broadcaster.C <- record on a closed channel panics: the watch loop
\* (and the process with it) is gone; otherwise the loop goes on as next
SendOn(b, next) ==
  IF b.closed THEN [loop EXCEPT !.pc = "panic"] ELSE next

\* sendBookmark: the broadcaster after it received the bookmark record
sendBookmark(lastID) ==
  IF bc.consumers = {} \/ bc.closed THEN bc
  ELSE [bc EXCEPT !.locked = TRUE, !.item = <<BookmarkRecord(lastID)>>,
                  !.todo = bc.consumers]

\* watchLoop's select: the trigger or the poll timer lead to readEvents,
\* the bookmark timer to sendBookmark and back to the select
LoopWake(byTrigger) ==
  /\ loop.pc = "wait"
  /\ IF byTrigger
       THEN /\ trigger = 1
            /\ trigger' = 0
            /\ loop' = readEvents
            /\ UNCHANGED bc
       ELSE /\ UNCHANGED trigger
            /\ \E timer \in SelectTimers :
                 IF timer = "bookmark"
                   THEN /\ ~bc.locked
                        /\ bc' = sendBookmark(loop.lastID)
                        /\ loop' = SendOn(bc, loop)
                   ELSE /\ loop' = readEvents
                        /\ UNCHANGED bc
  /\ UNCHANGED <<rows, seq, seqEnd, pc, call, compaction, started, readers,
                 w, reader, gc, partitionIDRequired, dbDown, ctxDone, recovery>>

\* watchLoop's select finds the context cancelled: the goroutine returns
LoopStop ==
  /\ loop.pc = "wait"
  /\ ctxDone
  /\ loop' = [loop EXCEPT !.pc = "stopped"]
  /\ UNCHANGED <<rows, seq, seqEnd, pc, call, trigger, compaction, started,
                 readers, bc, w, reader, gc, partitionIDRequired, dbDown,
                 ctxDone, recovery>>

\* a compaction marker: empty name, namespace holding a decimal id
IsMarker(rec) ==
  rec.name = "" /\ rec.namespace # "" /\ IsDecimal(rec.namespace)

\* the fill record for a missing id
FillRecord(id) == [ZeroRecord EXCEPT !.id = id]

\* a fill that inserts nothing
fillNothing(id) == rows

\* GormDB.fill: the table after the insert of the fill record, which is
\* refused (and only logged) when the id is taken or the statement fails
fill(id) ==
  IF DbFails \/ PrimaryViolation(FillRecord(id)) THEN rows
  ELSE InsertRows(FillRecord(id))

\* a horizon that takes whatever id it is given
raiseCompactionAlways(id, current) == id

\* the guarded assignment of g.compaction, in readEvents and in gc: the
\* horizon only moves up
raiseCompaction(id, current) == IF id > current THEN id ELSE current

\* a readEvents that takes every record as the next one
IsGapNever(record, lastID) == FALSE

\* readEvents: the record is not the one after lastID
IsGap(record, lastID) == record.id # lastID + 1

\* the watch loop back at its select after readEvents returned id
LoopAtSelect(id) ==
  [loop EXCEPT !.pc = "wait", !.init = FALSE, !.batch = <<>>,
               !.lastID = id, !.shared = id]

\* readEvents, one record of the batch: a gap is filled and the pass ends;
\* otherwise a marker raises the horizon (under the write lock) and the
\* record goes to the broadcaster, which takes its lock for the fan-out;
\* after the last record readEvents returns
LoopPublish ==
  /\ loop.pc = "send"
  /\ LET record == Head(loop.batch)
     IN  IF IsGap(record, loop.lastID)
           THEN /\ rows' = fill(loop.lastID + 1)
                /\ trigger' = triggerWatchLoop
                /\ loop' = LoopAtSelect(loop.lastID)
                /\ UNCHANGED <<compaction, bc>>
           ELSE /\ IsMarker(record) => readers = 0
                /\ ~bc.locked
                /\ compaction' =
                     IF IsMarker(record)
                       THEN raiseCompaction(ParseUint(record.namespace),
                                            compaction)
                       ELSE compaction
                /\ bc' = IF bc.consumers = {} \/ bc.closed THEN bc
                         ELSE [bc EXCEPT !.locked = TRUE, !.item = <<record>>,
                                         !.todo = bc.consumers]
                /\ loop' = SendOn(bc,
                             IF Len(loop.batch) = 1
                               THEN LoopAtSelect(record.id)
                               ELSE [loop EXCEPT !.lastID = record.id,
                                                 !.batch = Tail(@)])
                /\ UNCHANGED <<rows, trigger>>
  /\ UNCHANGED <<seq, seqEnd, pc, call, started, readers, w,
                 reader, gc, partitionIDRequired,
                 dbDown, ctxDone, recovery>>

\* Broadcaster.Start, fan-out: sub.C <- i for one consumer; the lock is
\* released after the last one
BroadcastTo(x) ==
  /\ bc.locked
  /\ x \in bc.todo
  /\ w[x].buf = <<>>
  /\ w' = [w EXCEPT ![x].buf = bc.item]
  /\ bc' = IF bc.todo = {x}
             THEN [bc EXCEPT !.locked = FALSE, !.item = <<>>, !.todo = {}]
             ELSE [bc EXCEPT !.todo = @ \ {x}]
  /\ UNCHANGED <<rows, seq, seqEnd, pc, call, trigger, compaction, started,
                 readers, loop, reader, gc, partitionIDRequired,
                 dbDown, ctxDone, recovery>>

\* the resource versions a watcher presents: none, or the decimal id of a
\* row it has seen (the first row, when there is one)
WatchVersions == {""} \cup { FormatUint(i) : i \in Ids \cap {1} }

\* Broadcaster.Subscribe, the consumer set: a closed broadcaster registers
\* nothing
Subscribe(b, x) ==
  IF b.closed THEN b ELSE [b EXCEPT !.consumers = @ \cup {x}]

\* Broadcaster.Subscribe, the subscription: from a closed broadcaster its
\* channel is closed at birth and s.closed is set
Subscription(b, wx) ==
  IF b.closed THEN [wx EXCEPT !.subClosed = TRUE, !.subCloses = @ + 1]
  ELSE wx

\* Strategy.Watch up to GormDB.Watch's Subscribe: the version is parsed, the
\* subscription registered under the broadcaster's lock; Concat starts on
\* the (initialize, sub.C) pair
WatchSubscribe(x, partitionID, rv) ==
  /\ started
  /\ w[x].pc = "none"
  /\ rv = "" \/ IsDecimal(rv)
  /\ IF PartitionRefused(partitionID)
       THEN /\ bc' = bc
            /\ w' = [w EXCEPT ![x].pc = "refused",
                              ![x].partition = partitionID,
                              ![x].err = "partition"]
       ELSE /\ ~bc.locked
            /\ bc' = Subscribe(bc, x)
            /\ w' = [w EXCEPT ![x] =
                      [Subscription(bc, w[x]) EXCEPT
                         !.pc = "rlock",
                         !.partition = partitionID,
                         !.after = IF rv = "" THEN 0 ELSE ParseUint(rv),
                         !.subTip = getMaxID]]
  /\ UNCHANGED <<rows, seq, seqEnd, pc, call, trigger, compaction, started,
                 readers, loop, reader, gc, partitionIDRequired,
                 dbDown, ctxDone, recovery>>

\* Strategy.Watch called with one of the versions
Watch(x) == \E rv \in WatchVersions : WatchSubscribe(x, "", rv)

\* the read locks held after Watch's validation: an expired version gives
\* the lock back, otherwise the catch-up goroutine keeps it
LockAfterValidate(n, valid) == IF valid THEN n + 1 ELSE n

\* GormDB.Watch: the read lock and validateCriteria; an expired version
\* releases the lock and closes result and initialize, otherwise the merger
\* and the catch-up goroutines start and Watch returns the result channel
WatchValidate(x) ==
  /\ w[x].pc = "rlock"
  /\ LET valid == validateCriteria(0, w[x].after, compaction)
     IN  /\ readers' = LockAfterValidate(readers, valid)
         /\ w' = IF valid
                   THEN [w EXCEPT ![x].pc = "watching", ![x].merger = "run",
                                  ![x].catchUp = "get",
                                  ![x].cuAfter = w[x].after,
                                  ![x].cuBefore = 0, ![x].retTip = seq]
                   ELSE [w EXCEPT ![x].pc = "close", ![x].err = "expired",
                                  ![x].resultClosed = TRUE,
                                  ![x].initClosed = TRUE]
  /\ UNCHANGED <<rows, seq, seqEnd, pc, call, trigger, compaction, started,
                 loop, bc, reader, gc, partitionIDRequired,
                 dbDown, ctxDone, recovery>>

\* Subscription.Close: the subscription leaves the consumer set
Detach(consumers, x) == consumers \ {x}

\* a close that does not look at s.closed
closeSubAgain(wx) == [wx EXCEPT !.subClosed = TRUE, !.subCloses = @ + 1]

\* Subscription.close on the subscriber's side: sub.C is closed unless
\* s.closed says it was
closeSub(wx) ==
  IF wx.subClosed THEN wx
  ELSE [wx EXCEPT !.subClosed = TRUE, !.subCloses = @ + 1]

\* GormDB.Watch, expired: sub.Close() under the broadcaster's lock, then the
\* drain goroutine starts and Watch returns the error
WatchSubClose(x) ==
  /\ w[x].pc = "close"
  /\ ~bc.locked
  /\ bc' = [bc EXCEPT !.consumers = Detach(@, x)]
  /\ w' = [w EXCEPT ![x] = [closeSub(w[x]) EXCEPT !.pc = "expired",
                                                  !.retTip = seq]]
  /\ UNCHANGED <<rows, seq, seqEnd, pc, call, trigger, compaction, started,
                 readers, loop, reader, gc, partitionIDRequired,
                 dbDown, ctxDone, recovery>>

\* the Criteria of one catch-up page
CatchUpCriteria(x) ==
  [ZeroCriteria EXCEPT !.nsSet = TRUE, !.namespace = NS,
                       !.after = w[x].cuAfter, !.before = w[x].cuBefore,
                       !.limit = catchUpLimit,
                       !.ignoreCompactionCheck = TRUE]

\* a merger that drops nothing
DuplicateNever(lastID, rec) == FALSE

\* the merger's filter: a record at or below the last delivered id is dropped
Duplicate(lastID, rec) == lastID # 0 /\ rec.id <= lastID

\* a record that reached merged passes the merger and, unless dropped,
\* arrives on result, where the merger waits with it until the client
\* receives
Merged(wx, rec) ==
  IF Duplicate(wx.lastID, rec) THEN wx
  ELSE IF wx.ready
    THEN [wx EXCEPT !.lastID = rec.id, !.delivered = Append(@, rec)]
    ELSE [wx EXCEPT !.lastID = rec.id, !.out = <<rec>>]

\* the merger is in its select, not in a send on result
MergerReceives(wx) == wx.merger = "run" /\ wx.out = <<>>

\* the merger has left its loop on ctx.Done, and its drain goroutine
\* receives from merged
MergerDrains(wx) == wx.merger \in {"closing", "done"} /\ wx.cancelled

\* a catch-up goroutine that keeps the read lock
RUnlockNever(n) == n

\* g.compactionLock.RUnlock() after initializeWatch returned
RUnlock(n) == n - 1

\* a catch-up whose Get never fails
GetFailsNever(wx) == FALSE

\* the Get of a catch-up page fails: the database refuses the statement or
\* the watch's context is cancelled
GetFails(wx) == dbDown \/ wx.cancelled

\* initializeWatch after the last page: initialize is closed (the read lock
\* is released with it)
CatchUpEnd(wx) == [wx EXCEPT !.catchUp = "done", !.initClosed = TRUE]

\* initializeWatch: one page read through GormDB.Get; an empty last page
\* ends the catch-up; when Get fails the read lock is released, initialize
\* is closed and sub.Close() is still to come
CatchUpGet(x) ==
  /\ w[x].catchUp = "get"
  /\ LET resp == Get(CatchUpCriteria(x), compaction)
         full == Len(resp.records) = catchUpLimit
         page == [w[x] EXCEPT
                    !.catchUp = "send", !.queue = resp.records,
                    !.more = full,
                    !.cuBefore = IF full THEN resp.resourceVersion ELSE @,
                    !.cuAfter =
                       IF full THEN resp.records[Len(resp.records)].id ELSE @]
     IN  IF GetFails(w[x])
           THEN /\ w' = [w EXCEPT ![x].catchUp = "failed",
                                  ![x].initClosed = TRUE]
                /\ readers' = RUnlock(readers)
           ELSE IF resp.records = <<>>
             THEN /\ w' = [w EXCEPT ![x] = CatchUpEnd(page)]
                  /\ readers' = RUnlock(readers)
             ELSE /\ w' = [w EXCEPT ![x] = page]
                  /\ UNCHANGED readers
  /\ UNCHANGED <<rows, seq, seqEnd, pc, call, trigger, compaction, started,
                 loop, bc, reader, gc, partitionIDRequired,
                 dbDown, ctxDone, recovery>>

\* initializeWatch: result <- record, through Concat and the merger to the
\* watcher's consumer; after the last record of a full page the next page,
\* after the last record of the last page the end of the catch-up
CatchUpSend(x) ==
  /\ w[x].catchUp = "send"
  /\ w[x].concat = "init"
  /\ MergerReceives(w[x]) \/ MergerDrains(w[x])
  /\ LET sent == [(IF MergerReceives(w[x])
                     THEN Merged(w[x], Head(w[x].queue)) ELSE w[x])
                   EXCEPT !.queue = Tail(@)]
     IN  IF Len(w[x].queue) > 1
           THEN /\ w' = [w EXCEPT ![x] = sent]
                /\ UNCHANGED readers
           ELSE IF w[x].more
             THEN /\ w' = [w EXCEPT ![x] = [sent EXCEPT !.catchUp = "get"]]
                  /\ UNCHANGED readers
             ELSE /\ w' = [w EXCEPT ![x] = CatchUpEnd(sent)]
                  /\ readers' = RUnlock(readers)
  /\ UNCHANGED <<rows, seq, seqEnd, pc, call, trigger, compaction, started,
                 loop, bc, reader, gc, partitionIDRequired,
                 dbDown, ctxDone, recovery>>

\* Concat is past initialize: it is closed and nothing of it is left
ConcatOnLive(x) ==
  \/ w[x].concat = "live"
  \/ w[x].concat = "init" /\ w[x].initClosed /\ w[x].queue = <<>>

\* Concat: with initialize closed the next record comes from sub.C; it
\* goes to the merger, or to the drain goroutine of an expired Watch, or it
\* waits in Concat's hands while nothing receives from merged
ConcatLive(x) ==
  /\ ConcatOnLive(x)
  /\ w[x].held = <<>>
  /\ w[x].buf # <<>>
  /\ LET taken == [w[x] EXCEPT !.concat = "live", !.buf = <<>>]
     IN  w' = [w EXCEPT ![x] =
                 IF MergerReceives(w[x]) THEN Merged(taken, w[x].buf[1])
                 ELSE IF w[x].pc = "expired" \/ MergerDrains(w[x])
                   THEN taken
                 ELSE [taken EXCEPT !.held = w[x].buf]]
  /\ UNCHANGED <<rows, seq, seqEnd, pc, call, trigger, compaction, started,
                 readers, loop, bc, reader, gc, partitionIDRequired,
                 dbDown, ctxDone, recovery>>

\* Concat: sub.C is closed and empty, so the merged channel is closed
ConcatEnd(x) ==
  /\ ConcatOnLive(x)
  /\ w[x].held = <<>>
  /\ w[x].buf = <<>>
  /\ w[x].subClosed
  /\ w' = [w EXCEPT ![x].concat = "done"]
  /\ UNCHANGED <<rows, seq, seqEnd, pc, call, trigger, compaction, started,
                 readers, loop, bc, reader, gc, partitionIDRequired,
                 dbDown, ctxDone, recovery>>

\* the drain goroutine of an expired Watch empties merged
DrainExpired(x) ==
  /\ w[x].pc = "expired"
  /\ w[x].held # <<>>
  /\ w' = [w EXCEPT ![x].held = <<>>]
  /\ UNCHANGED <<rows, seq, seqEnd, pc, call, trigger, compaction, started,
                 readers, loop, bc, reader, gc, partitionIDRequired,
                 dbDown, ctxDone, recovery>>

\* Concat hands the record it holds to the merger once the merger receives
\* again, or to the drain goroutine
ConcatHand(x) ==
  /\ w[x].held # <<>>
  /\ MergerReceives(w[x]) \/ MergerDrains(w[x])
  /\ LET handed == [w[x] EXCEPT !.held = <<>>]
     IN  w' = [w EXCEPT ![x] =
                 IF MergerReceives(w[x]) THEN Merged(handed, w[x].held[1])
                 ELSE handed]
  /\ UNCHANGED <<rows, seq, seqEnd, pc, call, trigger, compaction, started,
                 readers, loop, bc, reader, gc, partitionIDRequired,
                 dbDown, ctxDone, recovery>>

\* the client stops receiving on the result channel for a while
ClientStall(x) ==
  /\ w[x].pc = "watching"
  /\ w[x].ready
  /\ ~w[x].cancelled
  /\ w' = [w EXCEPT ![x].ready = FALSE]
  /\ UNCHANGED <<rows, seq, seqEnd, pc, call, trigger, compaction, started,
                 readers, loop, bc, reader, gc, partitionIDRequired,
                 dbDown, ctxDone, recovery>>

\* the client receives again, first of all the record the merger waits with
ClientReceive(x) ==
  /\ ~w[x].ready
  /\ ~w[x].cancelled
  /\ w' = [w EXCEPT ![x].ready = TRUE, ![x].out = <<>>,
                    ![x].delivered = @ \o w[x].out]
  /\ UNCHANGED <<rows, seq, seqEnd, pc, call, trigger, compaction, started,
                 readers, loop, bc, reader, gc, partitionIDRequired,
                 dbDown, ctxDone, recovery>>

\* watchResult.Stop, cancel(): the watch's context is done
WatchCancel(x) ==
  /\ w[x].pc = "watching"
  /\ ~w[x].cancelled
  /\ w' = [w EXCEPT ![x].cancelled = TRUE]
  /\ UNCHANGED <<rows, seq, seqEnd, pc, call, trigger, compaction, started,
                 readers, loop, bc, reader, gc, partitionIDRequired,
                 dbDown, ctxDone, recovery>>

\* a Stop that starts no goroutine
DrainedNothing(wx) == wx

\* for range w.c {}: the record the merger waits with is received and
\* dropped, and so is every later one
Drained(wx) == [wx EXCEPT !.ready = TRUE, !.out = <<>>]

\* watchResult.Stop, its goroutine: what still arrives on the result is
\* received and dropped
ResultDrain(x) ==
  /\ w[x].cancelled
  /\ ~w[x].ready
  /\ w' = [w EXCEPT ![x] = Drained(w[x])]
  /\ UNCHANGED <<rows, seq, seqEnd, pc, call, trigger, compaction, started,
                 readers, loop, bc, reader, gc, partitionIDRequired,
                 dbDown, ctxDone, recovery>>

\* the merger's select: ctx.Done() (the drain goroutine of merged starts),
\* or merged is closed; the merger returns and its deferred calls are next
MergerStop(x) ==
  /\ MergerReceives(w[x])
  /\ w[x].cancelled \/ w[x].concat = "done"
  /\ w' = [w EXCEPT ![x].merger = "closing"]
  /\ UNCHANGED <<rows, seq, seqEnd, pc, call, trigger, compaction, started,
                 readers, loop, bc, reader, gc, partitionIDRequired,
                 dbDown, ctxDone, recovery>>

\* the merger's deferred calls: sub.Close() under the broadcaster's lock,
\* then close(result)
MergerClose(x) ==
  /\ w[x].merger = "closing"
  /\ ~bc.locked
  /\ bc' = [bc EXCEPT !.consumers = Detach(@, x)]
  /\ w' = [w EXCEPT ![x] = [closeSub(w[x]) EXCEPT !.merger = "done",
                                                  !.resultClosed = TRUE]]
  /\ UNCHANGED <<rows, seq, seqEnd, pc, call, trigger, compaction, started,
                 readers, loop, reader, gc, partitionIDRequired,
                 dbDown, ctxDone, recovery>>

\* initializeWatch returned an error: after RUnlock and close(initialize),
\* sub.Close() under the broadcaster's lock
CatchUpSubClose(x) ==
  /\ w[x].catchUp = "failed"
  /\ ~bc.locked
  /\ bc' = [bc EXCEPT !.consumers = Detach(@, x)]
  /\ w' = [w EXCEPT ![x] = [closeSub(w[x]) EXCEPT !.catchUp = "done"]]
  /\ UNCHANGED <<rows, seq, seqEnd, pc, call, trigger, compaction, started,
                 readers, loop, reader, gc, partitionIDRequired,
                 dbDown, ctxDone, recovery>>

\* --------------------------------------------------------------------- gc

\* a compaction that marks every row of its batch
CompactIdsAll(from, to) == { i \in Ids : i >= from /\ i < to }

\* the rows a batch of the compaction marks: the predecessor of every row
\* in [from, to), and the fill, marker and removed rows among them
CompactIds(from, to) ==
  LET batch == { i \in Ids : i >= from /\ i < to }
  IN  { rows[i].previous : i \in { j \in batch : rows[j].previous # 0 } }
        \cup { i \in batch : rows[i].name = "" \/ rows[i].removed }

\* the end of the batch that starts at lastSuccessCompaction
NextBatch(from, to) ==
  IF from + compactBatchSize > to THEN to ELSE from + compactBatchSize

\* update ... set garbage = true where garbage is false and id in ids
MarkGarbage(ids) ==
  [i \in Ids |-> IF i \in ids /\ ~rows[i].garbage
                   THEN [rows[i] EXCEPT !.garbage = TRUE] ELSE rows[i]]

\* a delete step that selects its ids whatever their garbage flag
AnyIds(n) == Take(SortedSeq(Ids), n)

\* select id where garbage is true order by id asc limit n
GarbageIds(n) ==
  Take(SortedSeq({ i \in Ids : rows[i].garbage }), n)

\* the ids the delete step removes: all the selected ones but the newest
\* deleteRetainCount
DeleteIds(ids) ==
  IF Len(ids) > deleteRetainCount
    THEN { ids[k] : k \in 1 .. (Len(ids) - deleteRetainCount) }
    ELSE {}

\* delete from the table where id in ids
DeleteRows(ids) == [i \in Ids \ ids |-> rows[i]]

\* the compaction marker markCompaction inserts
MarkerRecord(id) == [ZeroRecord EXCEPT !.namespace = FormatUint(id)]

\* the table's last record is a compaction marker
LastIsMarker ==
  Ids # {} /\ rows[getMaxID].name = "" /\ rows[getMaxID].namespace # ""

\* gc's select finds the context cancelled: the goroutine returns
GcStop ==
  /\ gc.pc = "wait"
  /\ ctxDone
  /\ gc' = [gc EXCEPT !.pc = "stopped"]
  /\ UNCHANGED <<rows, seq, seqEnd, pc, call, trigger, compaction, watchVars,
                 reader, partitionIDRequired, dbDown, ctxDone, recovery>>

\* gc, a pass begins: the first pass starts at the lowest id that is not
\* garbage (at 0, to be asked again, when getMinID fails); with fewer than
\* compactRetainCount ids published the pass ends
GcWake ==
  /\ gc.pc = "wait"
  /\ LET minID == IF DbFails THEN 0 ELSE getMinID
         first == IF gc.lastSuccess = 0 THEN minID ELSE gc.lastSuccess
     IN  gc' = IF loop.shared < compactRetainCount
                 THEN [gc EXCEPT !.lastSuccess = first]
                 ELSE [gc EXCEPT !.lastSuccess = first, !.pc = "mark",
                                 !.next = loop.shared - compactRetainCount]
  /\ UNCHANGED <<rows, seq, seqEnd, pc, call, trigger, compaction, watchVars,
                 reader, partitionIDRequired,
                 dbDown, ctxDone, recovery>>

\* markCompaction: unless the last record is a marker already, a marker
\* for the new horizon is inserted.  When it returns an error (the
\* transaction fails, or Last finds no record on an empty table) gc calls
\* g.compactionLock.Unlock() on the lock it does not hold, which the Go
\* runtime answers with "fatal error: sync: Unlock of unlocked RWMutex":
\* the process is gone
GcMark ==
  /\ gc.pc = "mark"
  /\ IF DbFails \/ Ids = {}
       THEN /\ gc' = [gc EXCEPT !.pc = "crashed"]
            /\ UNCHANGED <<rows, seq, trigger>>
       ELSE IF LastIsMarker
         THEN /\ gc' = [gc EXCEPT !.pc = "wait"]
              /\ UNCHANGED <<rows, seq, trigger>>
         ELSE /\ rows' = InsertRows(MarkerRecord(gc.next))
              /\ seq' = seq + 1
              /\ trigger' = triggerWatchLoop
              /\ gc' = [gc EXCEPT !.pc = "raise"]
  /\ UNCHANGED <<seqEnd, pc, call, compaction, watchVars, reader,
                 partitionIDRequired,
                 dbDown, ctxDone, recovery>>

\* gc raises the horizon under the write lock
GcRaise ==
  /\ gc.pc = "raise"
  /\ readers = 0
  /\ compaction' = raiseCompaction(gc.next, compaction)
  /\ gc' = [gc EXCEPT !.pc = "scan"]
  /\ UNCHANGED <<rows, seq, seqEnd, pc, call, trigger, watchVars, reader,
                 partitionIDRequired,
                 dbDown, ctxDone, recovery>>

\* gc, compact step: the rows of one batch are read; when the scan fails
\* the loop continues with the same batch at once; after the last batch the
\* delete step begins
GcScan ==
  /\ gc.pc = "scan"
  /\ gc' = IF gc.lastSuccess < gc.next
             THEN IF DbFails THEN gc
                  ELSE [gc EXCEPT !.pc = "update",
                          !.ids = CompactIds(gc.lastSuccess,
                                             NextBatch(gc.lastSuccess,
                                                       gc.next))]
             ELSE [gc EXCEPT !.pc = IF deleteRetainCount = 0 THEN "wait"
                                    ELSE "select"]
  /\ UNCHANGED <<rows, seq, seqEnd, pc, call, trigger, compaction, watchVars,
                 reader, partitionIDRequired,
                 dbDown, ctxDone, recovery>>

\* gc, compact step: the ids of the batch are marked garbage; a failed
\* update is logged and the batch counts as done all the same
GcUpdate ==
  /\ gc.pc = "update"
  /\ rows' = IF DbFails THEN rows ELSE MarkGarbage(gc.ids)
  /\ gc' = [gc EXCEPT !.pc = "scan", !.ids = {},
                      !.lastSuccess = NextBatch(gc.lastSuccess, gc.next)]
  /\ UNCHANGED <<seq, seqEnd, pc, call, trigger, compaction, watchVars,
                 reader, partitionIDRequired,
                 dbDown, ctxDone, recovery>>

\* gc, delete step: the garbage ids are selected; with no more than
\* deleteRetainCount of them the pass ends; when the query fails the loop
\* continues with the same query at once
GcSelect ==
  /\ gc.pc = "select"
  /\ LET ids == DeleteIds(GarbageIds(deleteRetainCount + deleteBatchSize))
     IN  gc' = IF DbFails THEN gc
               ELSE IF ids = {} THEN [gc EXCEPT !.pc = "wait"]
               ELSE [gc EXCEPT !.pc = "delete", !.ids = ids]
  /\ UNCHANGED <<rows, seq, seqEnd, pc, call, trigger, compaction, watchVars,
                 reader, partitionIDRequired,
                 dbDown, ctxDone, recovery>>

\* gc, delete step: the selected ids are deleted in one statement; a
\* failed delete is logged
GcDelete ==
  /\ gc.pc = "delete"
  /\ rows' = IF DbFails THEN rows ELSE DeleteRows(gc.ids)
  /\ gc' = [gc EXCEPT !.pc = "select", !.ids = {}]
  /\ UNCHANGED <<seq, seqEnd, pc, call, trigger, compaction, watchVars,
                 reader, partitionIDRequired,
                 dbDown, ctxDone, recovery>>

\* Strategy.Watch's event for a record that reaches the client (no selector,
\* no bookmarks): sentinels are skipped, the type follows create and removed
EventType(rec) ==
  IF rec.name = "" THEN "none"
  ELSE IF rec.namespace # NS THEN "none"
  ELSE IF rec.create THEN "Added"
  ELSE IF rec.removed THEN "Deleted"
  ELSE "Modified"

vars ==
  <<rows, seq, seqEnd, pc, call, trigger, compaction, started, readers, loop,
    bc, w, reader, gc, partitionIDRequired,
                 dbDown, ctxDone, recovery>>

\* a table on which no call was made yet
EmptyTable == [i \in {} |-> ZeroRecord]

\* the table after Create and Delete (no finalizers) of key "a": the key is
\* fully removed
RemovedTable ==
  LET r1 == [ZeroRecord EXCEPT
               !.id = 1, !.name = "a", !.namespace = NS, !.uid = 1,
               !.generation = 1, !.create = TRUE, !.created = 1,
               !.metadata = [labels |-> "l0", finalizers |-> FALSE],
               !.data = "s0"]
      r2 == [r1 EXCEPT !.id = 2, !.previous = 1, !.create = FALSE,
                       !.deleted = TRUE, !.removed = TRUE, !.latest = TRUE,
                       !.status = "t0"]
  IN  (1 :> r1) @@ (2 :> r2)

InitTables == {EmptyTable, RemovedTable}

\* a strategy on one of the tables with n sequence ids ahead, its
\* partitionIDRequired one of required
InitStrategy(tables, n, required) ==
  /\ rows \in tables
  /\ seq = getMaxID
  /\ seqEnd = seq + n
  /\ pc = [p \in Callers |-> "idle"]
  /\ call = [p \in Callers |-> IdleCall]
  /\ trigger = 0
  /\ compaction = 0
  /\ started = FALSE
  /\ readers = 0
  /\ loop = IdleLoop
  /\ bc = IdleBroadcaster
  /\ w = [x \in Watchers |-> IdleWatch]
  /\ reader = IdleReader
  /\ gc = IdleGC
  /\ partitionIDRequired \in required
  /\ dbDown = FALSE
  /\ ctxDone = FALSE
  /\ recovery = "done"

\* the strategy as the tests build it: no partition id is required
InitStore(tables, n) == InitStrategy(tables, n, {FALSE})

Init == InitStore(InitTables, MaxId)

\* concurrent store calls on one table
Next ==
  \E p \in Callers :
    \/ Create(p, RaceNames, RacePayloads)
    \/ Update(p, RacePayloads, {TRUE})
    \/ UpdateStatus(p, RacePayloads, {TRUE}, {FALSE})
    \/ Delete(p, RacePayloads, {TRUE})
    \/ InsertStep(p)
    \/ Return(p)

Spec == Init /\ [][Next]_vars

\* one caller, two keys, payloads that differ in each of their parts
SeqNames == {"a", "b"}

SeqPayloads ==
  { Payload("l0", FALSE, "s0", "t0"), Payload("l1", FALSE, "s0", "t0"),
    Payload("l0", FALSE, "s1", "t1"), Payload("l0", TRUE, "s0", "t0") }

InitSeq == InitStore(InitTables, MaxId)

NextSeq ==
  \/ Create("c1", SeqNames, SeqPayloads)
  \/ Update("c1", SeqPayloads, BOOLEAN)
  \/ UpdateStatus("c1", SeqPayloads, BOOLEAN, BOOLEAN)
  \/ Delete("c1", SeqPayloads, BOOLEAN)
  \/ InsertStep("c1")
  \/ Return("c1")

SpecSeq == InitSeq /\ [][NextSeq]_vars

\* concurrent Create calls alone, on an empty table
NextCreates ==
  \E p \in Callers :
    \/ Create(p, RaceNames, RacePayloads)
    \/ InsertStep(p)
    \/ Return(p)

SpecCreates == InitStore({EmptyTable}, MaxId) /\ [][NextCreates]_vars

\* the watch engine with one writer and one watcher
WatchNames == {"a"}

NextWatch ==
  \/ Start
  \/ Create("c1", WatchNames, RacePayloads)
  \/ Delete("c1", RacePayloads, {TRUE})
  \/ InsertStep("c1")
  \/ Return("c1")
  \/ \E byTrigger \in BOOLEAN : LoopWake(byTrigger)
  \/ LoopPublish
  \/ \E x \in Watchers :
       \/ BroadcastTo(x)
       \/ Watch(x)
       \/ WatchValidate(x)
       \/ WatchSubClose(x)
       \/ CatchUpGet(x)
       \/ CatchUpSend(x)
       \/ ConcatLive(x)
       \/ ConcatEnd(x)
       \/ DrainExpired(x)

SpecWatch == InitStore(InitTables, MaxId) /\ [][NextWatch]_vars

\* an expired Watch while a burst of rows is published: the table holds the
\* removed key, the watcher presents the version of its first row
MaxBurst == 3

ExpiredVersions == {FormatUint(1)}

InitExpired == InitStore({RemovedTable}, MaxBurst)

NextExpired ==
  \/ Start
  \/ Create("c1", WatchNames, RacePayloads)
  \/ Delete("c1", RacePayloads, {TRUE})
  \/ InsertStep("c1")
  \/ Return("c1")
  \/ \E byTrigger \in BOOLEAN : LoopWake(byTrigger)
  \/ LoopPublish
  \/ \E x \in Watchers :
       \/ BroadcastTo(x)
       \/ \E rv \in ExpiredVersions : WatchSubscribe(x, "", rv)
       \/ WatchValidate(x)
       \/ WatchSubClose(x)
       \/ ConcatLive(x)
       \/ ConcatEnd(x)
       \/ DrainExpired(x)

\* every goroutine that can run does run
FairExpired ==
  /\ WF_vars(LoopPublish)
  /\ \A x \in Watchers :
       /\ WF_vars(BroadcastTo(x))
       /\ WF_vars(WatchValidate(x))
       /\ WF_vars(WatchSubClose(x))
       /\ WF_vars(ConcatLive(x))
       /\ WF_vars(DrainExpired(x))

SpecExpired == InitExpired /\ [][NextExpired]_vars /\ FairExpired

\* one caller and one key through create, update, delete and re-create
MaxChain == 4

ChainNames == {"a"}

\* the base payload, one with another spec and status, one with finalizers
ChainPayloads ==
  { Payload("l0", FALSE, "s0", "t0"), Payload("l0", FALSE, "s1", "t1"),
    Payload("l0", TRUE, "s0", "t0") }

NextChain ==
  \/ Create("c1", ChainNames, ChainPayloads)
  \/ Update("c1", ChainPayloads, {TRUE})
  \/ UpdateStatus("c1", ChainPayloads, {TRUE}, {FALSE})
  \/ Delete("c1", ChainPayloads, {TRUE})
  \/ InsertStep("c1")
  \/ Return("c1")

SpecChain == InitStore({EmptyTable}, MaxChain) /\ [][NextChain]_vars

\* paged and selected lists of three keys while one caller writes
MaxList == 2

ListNames == {"a", "b", "c"}

\* an object with the label and one without it
ListPayloads ==
  { Payload("l0", FALSE, "s0", "t0"), Payload("", FALSE, "s0", "t0") }

\* one label selector of each operator, and the field selector on a name
ListSels ==
  { NoSel, [op |-> "eq", vals |-> {"l0"}], [op |-> "neq", vals |-> {"l0"}],
    [op |-> "in", vals |-> {"l0", "l1"}], [op |-> "notin", vals |-> {"l0"}],
    [op |-> "exists", vals |-> {}], [op |-> "notexists", vals |-> {}],
    [op |-> "name", vals |-> {"b"}] }

ListLimits == {0, 1}

\* the table after Create of "a" (label l0), "b" (label l1) and "c" (no
\* label)
ListTable ==
  LET r(id, n, l) ==
        [ZeroRecord EXCEPT
           !.id = id, !.name = n, !.namespace = NS, !.uid = id,
           !.generation = 1, !.create = TRUE, !.created = id, !.latest = TRUE,
           !.metadata = [labels |-> l, finalizers |-> FALSE], !.data = "s0"]
  IN  (1 :> r(1, "a", "l0")) @@ (2 :> r(2, "b", "l1")) @@ (3 :> r(3, "c", ""))

NextList ==
  \/ Create("c1", ListNames, ListPayloads)
  \/ Update("c1", ListPayloads, {TRUE})
  \/ Delete("c1", RacePayloads, {TRUE})
  \/ InsertStep("c1")
  \/ Return("c1")
  \/ \E limit \in ListLimits, sel \in ListSels : List("", limit, sel)
  \/ ListContinue("")
  \/ ReaderReturn

SpecList == InitStore({EmptyTable, ListTable}, MaxList) /\ [][NextList]_vars

\* the gc beside the watch loop and one writer of two keys
MaxGc == 2

GcNames == {"a", "b"}

\* the table after two concurrent Creates of "a" that both found no row, and
\* the Delete of the more recent one
ForkedTable ==
  LET r1 == [ZeroRecord EXCEPT
               !.id = 1, !.name = "a", !.namespace = NS, !.uid = 1,
               !.generation = 1, !.create = TRUE, !.created = 1,
               !.latest = TRUE,
               !.metadata = [labels |-> "l0", finalizers |-> FALSE],
               !.data = "s0"]
      r2 == [r1 EXCEPT !.id = 2, !.uid = 2, !.latest = FALSE]
      r3 == [r2 EXCEPT !.id = 3, !.previous = 2, !.create = FALSE,
                       !.deleted = TRUE, !.removed = TRUE, !.latest = TRUE,
                       !.status = "t0"]
  IN  (1 :> r1) @@ (2 :> r2) @@ (3 :> r3)

NextGc ==
  \/ Start
  \/ Create("c1", GcNames, RacePayloads)
  \/ Delete("c1", RacePayloads, {TRUE})
  \/ InsertStep("c1")
  \/ Return("c1")
  \/ \E byTrigger \in BOOLEAN : LoopWake(byTrigger)
  \/ LoopPublish
  \/ GcWake
  \/ GcMark
  \/ GcRaise
  \/ GcScan
  \/ GcUpdate
  \/ GcSelect
  \/ GcDelete

SpecGc == InitStore({RemovedTable}, MaxGc) /\ [][NextGc]_vars

\* the same with a reader, on the table the two concurrent Creates left
NextGcGet ==
  \/ NextGc
  \/ \E name \in GcNames : GetCall("", name)
  \/ ReaderReturn

SpecGcForked == InitStore({ForkedTable}, MaxGc) /\ [][NextGcGet]_vars

\* contexts with and without a partition id on a strategy that requires
\* one: one writer, one reader, and one watcher up to the return of
\* Watch
MaxPartition == 1

PartitionNames == {"a"}

\* two live keys, enough for a second page: the first written under p1,
\* the second under a context without partition id
PartitionTable ==
  (1 :> [ListTable[1] EXCEPT !.partition = "p1"]) @@ (2 :> ListTable[2])

NextPartition ==
  \/ Start
  \/ \E partitionID \in Partitions :
       \E obj \in CreateObjs(PartitionNames, RacePayloads) :
         CreateCall("c1", partitionID, obj)
  \/ \E partitionID \in Partitions :
       \E obj \in UpdateObjs(RacePayloads, {TRUE}, FALSE) :
         UpdateCall("c1", partitionID, FALSE, obj)
  \/ \E partitionID \in Partitions, deleting \in BOOLEAN :
       \E obj \in UpdateObjs(RacePayloads, {TRUE}, deleting) :
         UpdateCall("c1", partitionID, TRUE, obj)
  \/ \E partitionID \in Partitions :
       \E obj \in UpdateObjs(RacePayloads, {TRUE}, TRUE) :
         UpdateCall("c1", partitionID, FALSE, obj)
  \/ InsertStep("c1")
  \/ Return("c1")
  \/ \E partitionID \in Partitions, name \in PartitionNames :
       GetCall(partitionID, name)
  \/ \E partitionID \in Partitions, name \in PartitionNames :
       GetToListCall(partitionID, name)
  \/ \E partitionID \in Partitions : List(partitionID, 1, NoSel)
  \/ \E partitionID \in Partitions : ListContinue(partitionID)
  \/ ReaderReturn
  \/ \E x \in Watchers :
       \/ \E partitionID \in Partitions : WatchSubscribe(x, partitionID, "")
       \/ WatchValidate(x)

SpecPartition ==
  InitStrategy({PartitionTable}, MaxPartition, {TRUE})
    /\ [][NextPartition]_vars

\* the table an earlier run of the engine left: key a created and deleted,
\* the id a refused insert consumed closed by a fill, a compaction marker
\* whose compact step never ran, key b created and updated
CompactTable ==
  LET b1 == [ZeroRecord EXCEPT
               !.id = 5, !.name = "b", !.namespace = NS, !.uid = 2,
               !.generation = 1, !.create = TRUE, !.created = 4,
               !.metadata = [labels |-> "l0", finalizers |-> FALSE],
               !.data = "s0"]
      b2 == [b1 EXCEPT !.id = 6, !.previous = 5, !.create = FALSE,
                       !.latest = TRUE, !.status = "t0"]
  IN  RemovedTable @@ (3 :> FillRecord(3)) @@ (4 :> MarkerRecord(1))
        @@ (5 :> b1) @@ (6 :> b2)

MaxCompact == 1

SpecCompact == InitStore({CompactTable}, MaxCompact) /\ [][NextGc]_vars

\* the removed-key table after "a" was created again and "b" was created:
\* with one more row the compaction's range takes in the live row of "a"
KeepTable ==
  LET a3 == [RemovedTable[1] EXCEPT
               !.id = 3, !.uid = 2, !.previous = 2, !.created = 3,
               !.latest = TRUE]
      b4 == [RemovedTable[1] EXCEPT
               !.id = 4, !.name = "b", !.uid = 3, !.created = 4,
               !.latest = TRUE]
  IN  (1 :> RemovedTable[1])
        @@ (2 :> [RemovedTable[2] EXCEPT !.latest = FALSE])
        @@ (3 :> a3) @@ (4 :> b4)

MaxKeep == 1

SpecKeep == InitStore({KeepTable}, MaxKeep) /\ [][NextGc]_vars

\* the environment of the background tasks: the database goes away and
\* comes back, and the context given to Start is cancelled
DbFail ==
  /\ started
  /\ ~dbDown
  /\ dbDown' = TRUE
  /\ UNCHANGED <<rows, seq, seqEnd, pc, call, trigger, compaction, watchVars,
                 reader, gc, partitionIDRequired, ctxDone, recovery>>

DbRecover ==
  /\ dbDown
  /\ dbDown' = FALSE
  /\ UNCHANGED <<rows, seq, seqEnd, pc, call, trigger, compaction, watchVars,
                 reader, gc, partitionIDRequired, ctxDone, recovery>>

Cancel ==
  /\ started
  /\ ~ctxDone
  /\ ctxDone' = TRUE
  /\ UNCHANGED <<rows, seq, seqEnd, pc, call, trigger, compaction, watchVars,
                 reader, gc, partitionIDRequired, dbDown, recovery>>

\* Broadcaster.Close, the broadcaster: unless b.closed says it was done,
\* every consumer is removed and b.C is closed
Close(b) ==
  IF b.closed THEN b
  ELSE [b EXCEPT !.closed = TRUE, !.consumers = {}, !.closes = @ + 1]

\* a Close that leaves the subscriptions as they are
CloseNoConsumers(b) == w

\* Broadcaster.Close, the subscriptions: sub.close(false) for every consumer
CloseConsumers(b) ==
  [x \in Watchers |->
     IF ~b.closed /\ x \in b.consumers THEN closeSub(w[x]) ELSE w[x]]

\* Broadcaster.Start, its select finds the context cancelled: b.Close()
\* under the lock, then the goroutine returns
BroadcasterStop ==
  /\ started
  /\ ctxDone
  /\ ~bc.stopped
  /\ ~bc.locked
  /\ w' = CloseConsumers(bc)
  /\ bc' = [Close(bc) EXCEPT !.stopped = TRUE]
  /\ UNCHANGED <<rows, seq, seqEnd, pc, call, trigger, compaction, started,
                 readers, loop, reader, gc, partitionIDRequired,
                 dbDown, ctxDone, recovery>>

\* Broadcaster.Close called from outside, under the lock
BroadcasterClose ==
  /\ ~bc.locked
  /\ w' = CloseConsumers(bc)
  /\ bc' = Close(bc)
  /\ UNCHANGED <<rows, seq, seqEnd, pc, call, trigger, compaction, started,
                 readers, loop, reader, gc, partitionIDRequired,
                 dbDown, ctxDone, recovery>>

\* Broadcaster.Start, its select receives from the closed b.C: the
\* goroutine returns
BroadcasterEnd ==
  /\ started
  /\ bc.closed
  /\ ~bc.stopped
  /\ ~bc.locked
  /\ bc' = [bc EXCEPT !.stopped = TRUE]
  /\ UNCHANGED <<rows, seq, seqEnd, pc, call, trigger, compaction, started,
                 readers, loop, w, reader, gc, partitionIDRequired,
                 dbDown, ctxDone, recovery>>

\* the watch loop and the gc of a started table nobody writes to, with a
\* database that can fail and a context that can be cancelled
NextFaults ==
  \/ Start
  \/ \E byTrigger \in BOOLEAN : LoopWake(byTrigger)
  \/ LoopPublish
  \/ LoopStop
  \/ GcWake
  \/ GcMark
  \/ GcRaise
  \/ GcScan
  \/ GcUpdate
  \/ GcSelect
  \/ GcDelete
  \/ GcStop
  \/ DbFail
  \/ DbRecover
  \/ Cancel

SpecFaults == InitStore({CompactTable}, MaxCompact) /\ [][NextFaults]_vars

\* the gc goroutine runs: each of its steps is taken when it can be
FairGc ==
  /\ WF_vars(GcWake)
  /\ WF_vars(GcMark)
  /\ WF_vars(GcRaise)
  /\ WF_vars(GcScan)
  /\ WF_vars(GcUpdate)
  /\ WF_vars(GcSelect)
  /\ WF_vars(GcDelete)
  /\ WF_vars(GcStop)

SpecCancel ==
  InitStore({CompactTable}, MaxCompact) /\ [][NextFaults]_vars /\ FairGc

\* two writers that create the removed key at once, one of which also
\* deletes: the refused insert leaves an id unused; beside them the watch
\* loop
MaxFill == 3

FillNames == {"a"}

NextFill ==
  \/ Start
  \/ \E p \in Callers :
       \/ Create(p, FillNames, RacePayloads)
       \/ InsertStep(p)
       \/ Return(p)
  \/ Delete("c1", RacePayloads, {TRUE})
  \/ \E byTrigger \in BOOLEAN : LoopWake(byTrigger)
  \/ LoopPublish

SpecFill == InitStore({RemovedTable}, MaxFill) /\ [][NextFill]_vars

\* the same race with a second writer that makes its one Create, and a first
\* writer that deletes the object it has just read, under a fair watch loop
MaxLive == 3

NextLive ==
  \/ Start
  \/ \E p \in Callers :
       \/ Create(p, FillNames, RacePayloads)
       \/ InsertStep(p)
  \/ \E obj \in UpdateObjs(RacePayloads, {TRUE}, TRUE) :
       /\ ParseUint(obj.resourceVersion) = getMaxID
       /\ UpdateCall("c1", "", FALSE, obj)
  \/ Return("c1")
  \/ \E byTrigger \in BOOLEAN : LoopWake(byTrigger)
  \/ LoopPublish

\* the watch loop's goroutine runs: its 2s timer fires and readEvents goes
\* on after each record
FairLive ==
  /\ WF_vars(\E byTrigger \in BOOLEAN : LoopWake(byTrigger))
  /\ WF_vars(LoopPublish)

SpecLive ==
  InitStore({RemovedTable}, MaxLive) /\ [][NextLive]_vars /\ FairLive

\* one watcher on a table that one writer leaves alone after its last
\* insert, with every goroutine of the watch engine running
MaxIdle == 1

FairIdle ==
  /\ WF_vars(LoopWake(FALSE))
  /\ WF_vars(LoopPublish)
  /\ \A x \in Watchers :
       /\ WF_vars(BroadcastTo(x))
       /\ WF_vars(WatchValidate(x))
       /\ WF_vars(CatchUpGet(x))
       /\ WF_vars(CatchUpSend(x))
       /\ WF_vars(ConcatLive(x))

NextIdle ==
  \/ Start
  \/ Create("c1", WatchNames, RacePayloads)
  \/ Delete("c1", RacePayloads, {TRUE})
  \/ InsertStep("c1")
  \/ Return("c1")
  \/ \E byTrigger \in BOOLEAN : LoopWake(byTrigger)
  \/ LoopPublish
  \/ \E x \in Watchers :
       \/ BroadcastTo(x)
       \/ WatchSubscribe(x, "", "")
       \/ WatchValidate(x)
       \/ CatchUpGet(x)
       \/ CatchUpSend(x)
       \/ ConcatLive(x)

SpecIdle == InitStore({RemovedTable}, MaxIdle) /\ [][NextIdle]_vars /\ FairIdle

\* one watcher whose client can stall and stop, beside one writer, on a
\* table with live rows to catch up on and a database that can fail
MaxStop == 1

StopNames == {"b"}

\* the table after Create of "a"
StopTable == 1 :> ListTable[1]

NextStop ==
  \/ Start
  \/ Create("c1", StopNames, RacePayloads)
  \/ InsertStep("c1")
  \/ Return("c1")
  \/ \E byTrigger \in BOOLEAN : LoopWake(byTrigger)
  \/ LoopPublish
  \/ DbFail
  \/ DbRecover
  \/ \E x \in Watchers :
       \/ BroadcastTo(x)
       \/ WatchSubscribe(x, "", "")
       \/ WatchValidate(x)
       \/ CatchUpGet(x)
       \/ CatchUpSend(x)
       \/ CatchUpSubClose(x)
       \/ ConcatLive(x)
       \/ ConcatHand(x)
       \/ ConcatEnd(x)
       \/ ClientStall(x)
       \/ ClientReceive(x)
       \/ WatchCancel(x)
       \/ ResultDrain(x)
       \/ MergerStop(x)
       \/ MergerClose(x)

SpecStop == InitStore({StopTable}, MaxStop) /\ [][NextStop]_vars

\* the same watcher beside two writers that create one object each, with
\* every goroutine of the watch engine running and a client that may stall
\* until it stops the watch
MaxHalt == 2

NextHalt ==
  \/ Start
  \/ Create("c1", {"b"}, RacePayloads)
  \/ Create("c2", {"c"}, RacePayloads)
  \/ \E p \in Callers : InsertStep(p)
  \/ \E byTrigger \in BOOLEAN : LoopWake(byTrigger)
  \/ LoopPublish
  \/ \E x \in Watchers :
       \/ BroadcastTo(x)
       \/ WatchSubscribe(x, "", "")
       \/ WatchValidate(x)
       \/ CatchUpGet(x)
       \/ CatchUpSend(x)
       \/ CatchUpSubClose(x)
       \/ ConcatLive(x)
       \/ ConcatHand(x)
       \/ ConcatEnd(x)
       \/ ClientStall(x)
       \/ ClientReceive(x)
       \/ WatchCancel(x)
       \/ ResultDrain(x)
       \/ MergerStop(x)
       \/ MergerClose(x)

\* the catch-up goroutine is about to read a page: CatchUpGet is enabled in
\* exactly these states
CatchUpReads(x) == w[x].catchUp = "get"

\* weak fairness of CatchUpGet, with its enabling condition written out
FairCatchUpGet(x) ==
  []<>(~CatchUpReads(x)) \/ []<><<CatchUpGet(x)>>_vars

\* fairness of every goroutine the end of a watch depends on: the
\* broadcaster, the catch-up, Concat, the merger and the drain that Stop
\* starts
FairHalt ==
  \A x \in Watchers :
       /\ WF_vars(BroadcastTo(x))
       /\ WF_vars(WatchValidate(x))
       /\ FairCatchUpGet(x)
       /\ WF_vars(CatchUpSend(x))
       /\ WF_vars(CatchUpSubClose(x))
       /\ WF_vars(ConcatLive(x))
       /\ WF_vars(ConcatHand(x))
       /\ WF_vars(ConcatEnd(x))
       /\ WF_vars(MergerStop(x))
       /\ WF_vars(MergerClose(x))
       /\ WF_vars(ResultDrain(x))

SpecHalt == InitStore({StopTable}, MaxHalt) /\ [][NextHalt]_vars /\ FairHalt

\* a table with one row under a writer, the watch loop, the broadcaster and
\* a watcher, while the server's context is cancelled
MaxShutdown == 1

NextShutdown ==
  \/ Start
  \/ Create("c1", StopNames, RacePayloads)
  \/ InsertStep("c1")
  \/ \E byTrigger \in BOOLEAN : LoopWake(byTrigger)
  \/ LoopPublish
  \/ LoopStop
  \/ Cancel
  \/ BroadcasterStop
  \/ \E x \in Watchers :
       \/ BroadcastTo(x)
       \/ WatchSubscribe(x, "", "")
       \/ WatchValidate(x)
       \/ CatchUpGet(x)
       \/ CatchUpSend(x)
       \/ CatchUpSubClose(x)
       \/ ConcatLive(x)
       \/ ConcatEnd(x)
       \/ WatchCancel(x)
       \/ MergerStop(x)
       \/ MergerClose(x)

SpecShutdown == InitStore({StopTable}, MaxShutdown) /\ [][NextShutdown]_vars

\* the same with Broadcaster.Close also called from outside
NextClose ==
  \/ NextShutdown
  \/ BroadcasterClose
  \/ BroadcasterEnd

SpecClose == InitStore({StopTable}, MaxShutdown) /\ [][NextClose]_vars

\* ------------------------------------------------------ corruption recovery

\* a query that only finds the values more than two rows share
DuplicatePreviousAboveTwo ==
  { p \in { rows[i].previous : i \in Ids } \ {0} :
      Cardinality({ i \in Ids : rows[i].previous = p }) > 2 }

\* select max(id) as id, previous, count(previous) as p ... group by
\* previous having p > 1: the non-null values of previous that more than one
\* row has (count(previous) leaves the rows without previous out)
DuplicatePrevious ==
  { p \in { rows[i].previous : i \in Ids } \ {0} :
      Cardinality({ i \in Ids : rows[i].previous = p }) > 1 }

\* the ids the query returns: for each such value the highest id that has it
BadIds ==
  { Max({ i \in Ids : rows[i].previous = p }) : p \in DuplicatePrevious }

\* the keys of the bad records
BadKeys == { <<rows[i].namespace, rows[i].name>> : i \in BadIds }

\* the table after the writes of one deleteCorruptedStep: every row of a bad
\* record's key has removed and deleted set, and the bad records are deleted
Recovered ==
  [i \in Ids \ BadIds |->
     IF <<rows[i].namespace, rows[i].name>> \in BadKeys
       THEN [rows[i] EXCEPT !.removed = TRUE, !.deleted = TRUE]
       ELSE rows[i]]

\* deleteCorrupted, one turn of its loop: with no duplicate it returns;
\* a failing statement makes it return the error
deleteCorruptedStep ==
  /\ recovery = "run"
  /\ IF dbDown
       THEN recovery' = "error" /\ UNCHANGED rows
       ELSE IF BadIds = {}
         THEN recovery' = "done" /\ UNCHANGED rows
         ELSE rows' = Recovered /\ UNCHANGED recovery
  /\ UNCHANGED <<seq, seqEnd, pc, call, trigger, compaction, watchVars,
                 reader, gc, partitionIDRequired, dbDown, ctxDone>>

\* the tables deleteCorrupted is given: MaxRecover rows of two keys, written
\* before `previous` had its unique index, so that a row can share its
\* predecessor with another row of its key
MaxRecover == 4

RecoverNames == {"a", "b"}

CorruptRecord(id, name, previous, last) ==
  [ZeroRecord EXCEPT
     !.id = id, !.name = name, !.namespace = NS, !.uid = 1,
     !.generation = 1, !.previous = previous, !.create = previous = 0,
     !.created = 1, !.latest = last,
     !.metadata = [labels |-> "l0", finalizers |-> FALSE],
     !.data = "s0", !.status = "t0"]

CorruptTables ==
  { [i \in 1 .. MaxRecover |->
       CorruptRecord(i, names[i], prev[i],
                     \A j \in 1 .. MaxRecover : prev[j] # i)] :
      <<names, prev>> \in
        { x \in [1 .. MaxRecover -> RecoverNames]
                  \X [1 .. MaxRecover -> 0 .. (MaxRecover - 1)] :
            \A i \in 1 .. MaxRecover :
              /\ x[2][i] < i
              /\ x[2][i] # 0 => x[1][x[2][i]] = x[1][i] } }

\* the factory opens a table and runs deleteCorrupted on it
InitRecover ==
  /\ rows \in CorruptTables
  /\ seq = getMaxID
  /\ seqEnd = seq
  /\ pc = [p \in Callers |-> "idle"]
  /\ call = [p \in Callers |-> IdleCall]
  /\ trigger = 0
  /\ compaction = 0
  /\ started = FALSE
  /\ readers = 0
  /\ loop = IdleLoop
  /\ bc = IdleBroadcaster
  /\ w = [x \in Watchers |-> IdleWatch]
  /\ reader = IdleReader
  /\ gc = IdleGC
  /\ partitionIDRequired = FALSE
  /\ dbDown = FALSE
  /\ ctxDone = FALSE
  /\ recovery = "run"

NextRecover == deleteCorruptedStep

\* the factory's call runs to its end
SpecRecover == InitRecover /\ [][NextRecover]_vars /\ WF_vars(NextRecover)

\* reads on a started table, whose horizon is the MAX(id) Start found: one
\* writer, and one reader that gets, lists and pages
MaxHorizon == 2

HorizonNames == {"a", "d"}

NextHorizon ==
  \/ Start
  \/ Create("c1", HorizonNames, RacePayloads)
  \/ Delete("c1", RacePayloads, {TRUE})
  \/ InsertStep("c1")
  \/ Return("c1")
  \/ \E name \in HorizonNames : GetCall("", name)
  \/ \E name \in HorizonNames : GetToListCall("", name)
  \/ \E limit \in ListLimits : List("", limit, NoSel)
  \/ ListContinue("")
  \/ ReaderReturn

SpecHorizon ==
  InitStore({EmptyTable, ListTable}, MaxHorizon) /\ [][NextHorizon]_vars

\* ------------------------------------------------------------------ claims

\* the rows of a key, and the key's most recent row
KeyRows(n) == {i \in Ids : rows[i].name = n /\ rows[i].namespace = NS}

\* the removed-key table is one the store calls build
ReachRemoved == rows # RemovedTable

\* C1: whatever the interleaving of concurrent Create calls for one key, at
\* most one of them succeeds, and never are two rows of the key both its live
\* version (latest, with removed unset).
C1_OneLiveRow ==
  /\ \A n \in Names :
       Cardinality({i \in KeyRows(n) :
                      rows[i].latest /\ ~rows[i].removed}) <= 1
  /\ \A p, q \in Callers :
       (/\ p # q
        /\ pc[p] = "done" /\ pc[q] = "done"
        /\ call[p].op = "create" /\ call[q].op = "create"
        /\ call[p].obj.name = call[q].obj.name
        /\ call[p].tip = call[q].tip)
       => ~(call[p].res = "ok" /\ call[q].res = "ok")

\* the number an update call presented as its resource version
PresentedVersion(p) == ParseUint(call[p].obj.resourceVersion)

\* a finished Update, UpdateStatus or Delete of a caller that presented a
\* version of the key together with that version's uid
IsUpdateCall(p) ==
  /\ pc[p] = "done" /\ call[p].op \in {"update", "status"}
  /\ PresentedVersion(p) \in Ids
  /\ call[p].obj.uid = rows[PresentedVersion(p)].uid

\* C2: of the Update, UpdateStatus and Delete calls that present the same
\* resource version k for a key, exactly one inserts a row (with id > k, as
\* the successor of k); every other one returns conflict, and the successor
\* of k stays the only row chained to k.
C2_ExactlyOneWins ==
  /\ \A p \in Callers :
       IsUpdateCall(p) =>
         LET k == PresentedVersion(p)
             succ == {j \in Ids : rows[j].previous = k}
         IN  /\ call[p].res \in {"ok", "conflict"}
             /\ call[p].res = "ok" =>
                  /\ call[p].tip = k
                  /\ call[p].newId > k
                  /\ succ = {call[p].newId}
             /\ (call[p].res = "conflict" /\ call[p].tip = k) =>
                  /\ call[p].newId = 0
                  /\ Cardinality(succ) = 1
                  /\ \A j \in succ : j > k
  /\ \A p, q \in Callers :
       (/\ p # q /\ IsUpdateCall(p) /\ IsUpdateCall(q)
        /\ call[p].obj.name = call[q].obj.name
        /\ PresentedVersion(p) = PresentedVersion(q))
       => ~(call[p].res = "ok" /\ call[q].res = "ok")

\* two calls presented the version that was current for both; one of them
\* inserted its successor, the other was refused at the insert
C2_Witness ==
  \E p, q \in Callers :
    /\ p # q /\ IsUpdateCall(p) /\ IsUpdateCall(q)
    /\ call[p].obj.name = call[q].obj.name
    /\ PresentedVersion(p) = PresentedVersion(q)
    /\ call[p].tip = PresentedVersion(p) /\ call[q].tip = call[p].tip
    /\ call[p].res = "ok" /\ call[q].res = "conflict"

\* C7: for each key, exactly one row has latest = true while the key is live
\* (its most recent row has removed unset), and none once the key is fully
\* removed.
C7_LatestCount ==
  \A n \in Names :
    KeyRows(n) # {} =>
      LET count == Cardinality({i \in KeyRows(n) : rows[i].latest})
      IN  IF rows[Max(KeyRows(n))].removed THEN count = 0 ELSE count = 1

KeyLive(obj) ==
  LET ks == {i \in Ids : rows[i].name = obj.name
                           /\ rows[i].namespace = obj.namespace}
  IN  ks # {} /\ ~rows[Max(ks)].removed

\* C9: a Create for a key whose most recent row has removed unset returns
\* already-exists, inserts no row and leaves the table as it was.
C9_AlreadyExists ==
  [][\A p \in Callers :
       (/\ pc[p] = "idle" /\ pc'[p] # "idle"
        /\ call'[p].op = "create"
        /\ KeyLive(call'[p].obj))
       => /\ pc'[p] = "done"
          /\ call'[p].res = "exists"
          /\ call'[p].newId = 0
          /\ rows' = rows
          /\ seq' = seq]_vars

\* a Create was refused for a live key while the other key has no row
C9_Witness ==
  \E p \in Callers :
    /\ pc[p] = "done" /\ call[p].op = "create" /\ call[p].res = "exists"
    /\ call[p].tip # 0
    /\ \E n \in RaceNames : KeyRows(n) = {}

\* a Create has returned and the row it inserted is still the key's most
\* recent one
CreatedAndCurrent(p) ==
  /\ pc[p] = "done" /\ call[p].op = "create" /\ call[p].res = "ok"
  /\ Max(KeyRows(call[p].obj.name)) = call[p].newId

\* C10: after a successful Create(obj), Get returns an object whose labels,
\* finalizers and spec are those submitted, with the uid the Create
\* returned, generation 1 and the decimal id of the inserted row as its
\* resourceVersion.
C10_CreateGetRoundTrip ==
  \A p \in Callers :
    CreatedAndCurrent(p) =>
      LET got == StrategyGet(call[p].obj.namespace, call[p].obj.name)
      IN  /\ got.err = "none"
          /\ got.obj.name = call[p].obj.name
          /\ got.obj.namespace = call[p].obj.namespace
          /\ got.obj.labels = call[p].obj.labels
          /\ got.obj.finalizers = call[p].obj.finalizers
          /\ got.obj.spec = call[p].obj.spec
          /\ got.obj.uid = call[p].out.uid
          /\ got.obj.uid # 0
          /\ got.obj.generation = 1
          /\ got.obj.resourceVersion = FormatUint(call[p].newId)

\* a re-created key: the Create that followed a removal returned, with
\* labels and a spec that differ from the removed object's
C10_Witness ==
  \E p \in Callers :
    /\ CreatedAndCurrent(p)
    /\ call[p].tip # 0
    /\ call[p].obj.labels = "l1"
    /\ rows[call[p].tip].metadata.labels # "l1"

\* the ids of the records that arrived on watcher x's channel, in order
DeliveredIds(x) == [k \in 1 .. Len(w[x].delivered) |-> w[x].delivered[k].id]

\* C3: for every watcher the ids of the records delivered on its channel
\* are strictly increasing, whatever the interleaving of catch-up and live
\* feed: a record delivered through catch-up is not delivered again from
\* the live feed
C3_StrictlyIncreasing ==
  \A x \in Watchers :
    \A i, j \in 1 .. Len(w[x].delivered) :
      i < j => DeliveredIds(x)[i] < DeliveredIds(x)[j]

\* the seam: with the catch-up over, the live feed holds a record the
\* catch-up has already delivered
C3_Witness ==
  \E x \in Watchers :
    /\ w[x].catchUp = "done"
    /\ w[x].buf # <<>>
    /\ \E k \in 1 .. Len(w[x].delivered) :
         DeliveredIds(x)[k] = w[x].buf[1].id

\* the watch loop has published every row up to id and nothing is on its
\* way to watcher x
Settled(x, id) ==
  /\ w[x].catchUp = "done"
  /\ w[x].buf = <<>>
  /\ ~bc.locked
  /\ loop.pc = "wait" /\ ~loop.init /\ loop.lastID >= id

\* the ids of the events watcher x received
EventIds(x) ==
  { w[x].delivered[k].id : k \in
      { n \in 1 .. Len(w[x].delivered) :
          EventType(w[x].delivered[n]) # "none" } }

\* the records a watcher that last saw version after has missed at tip
MissedIds(after, tip) ==
  { i \in Ids : i > after /\ i <= tip /\ EventType(rows[i]) # "none" }

\* C4: a Watch started with a last-seen version v at or above the
\* compaction horizon delivers exactly the events missed: one for every
\* record with v < id <= tip at subscription, and no others in that range
C4_ExactlyMissed ==
  \A x \in Watchers :
    (w[x].after # 0 /\ Settled(x, w[x].subTip)) =>
      { i \in EventIds(x) : i <= w[x].subTip }
        = MissedIds(w[x].after, w[x].subTip)

\* C5: every named record committed after Watch returned reaches the
\* watcher: once the watch loop has read the whole table and nothing is on
\* its way, each such record has been delivered
C5_LiveDelivered ==
  \A x \in Watchers :
    Settled(x, getMaxID) =>
      \A i \in Ids :
        (i > w[x].retTip /\ EventType(rows[i]) # "none") => i \in EventIds(x)

\* the read locks held: one per watcher whose catch-up is running
CatchingUp == { x \in Watchers : w[x].catchUp \in {"get", "send"} }

\* Watch was called with a non-zero version below the compaction horizon
ExpiredCall(x) ==
  w[x].pc = "rlock" /\ w[x].after # 0 /\ w[x].after < compaction

\* what an expired Watch leaves behind: the error, no stream, the read lock
\* released, the subscription no consumer of the broadcaster
ExpiredCleanup ==
  [][\A x \in Watchers :
       /\ (ExpiredCall(x) /\ w'[x].pc # "rlock")
            => (w'[x].pc = "close" /\ w'[x].err = "expired")
       /\ w'[x].pc = "expired" =>
            /\ w'[x].err = "expired"
            /\ w'[x].resultClosed /\ w'[x].delivered = <<>>
            /\ w'[x].merger = "off" /\ w'[x].catchUp = "off"
            /\ readers' = Cardinality(CatchingUp')
            /\ x \notin bc'.consumers /\ w'[x].subClosed]_vars

\* the expired Watch returns
ExpiredReturns ==
  \A x \in Watchers : ExpiredCall(x) ~> (w[x].pc = "expired")

\* C6: a Watch whose non-zero after is below the compaction horizon returns
\* resource-expired and no event stream; before it returns, its read lock is
\* released and its subscription is detached from the broadcaster
C6_ExpiredWatch == ExpiredCleanup /\ ExpiredReturns

\* the decimal id of the most recent row of a caller's key, "" without a row
KeyVersion(obj) ==
  LET ks == {i \in Ids : rows[i].name = obj.name
                           /\ rows[i].namespace = obj.namespace}
  IN  IF ks = {} THEN "" ELSE FormatUint(Max(ks))

\* C11: an Update, UpdateStatus or Delete whose object carries a
\* resourceVersion different from the decimal id of the key's most recent
\* row fails with conflict and the optimistic-lock message, and leaves the
\* table unchanged: no row is inserted and no latest flag is flipped.
C11_VersionMismatch ==
  [][\A p \in Callers :
       (/\ pc[p] = "idle" /\ pc'[p] # "idle"
        /\ call'[p].op \in {"update", "status"}
        /\ KeyVersion(call'[p].obj) # ""
        /\ call'[p].obj.resourceVersion # KeyVersion(call'[p].obj))
       => /\ pc'[p] = "done"
          /\ call'[p].res = "conflict"
          /\ call'[p].msg = OptimisticLockErrorMsg
          /\ call'[p].newId = 0
          /\ rows' = rows
          /\ seq' = seq]_vars

\* a call that presented a superseded version of a live key was refused with
\* the optimistic-lock message
C11_Witness ==
  \E p \in Callers :
    /\ pc[p] = "done" /\ call[p].op \in {"update", "status"}
    /\ call[p].res = "conflict" /\ call[p].msg = OptimisticLockErrorMsg
    /\ call[p].tip # 0 /\ ~rows[call[p].tip].removed
    /\ PresentedVersion(p) \in Ids /\ PresentedVersion(p) < call[p].tip
    /\ rows[PresentedVersion(p)].name = call[p].obj.name

\* an Update, UpdateStatus or Delete has returned the row it inserted
Updated(p) ==
  pc[p] = "done" /\ call[p].op \in {"update", "status"} /\ call[p].res = "ok"

\* what the caller submitted serializes to the metadata and data of row old
SubmittedEqual(obj, old) ==
  /\ obj.labels = old.metadata.labels
  /\ obj.finalizers = old.metadata.finalizers
  /\ obj.spec = old.data

\* C12: a spec-path Update inserts a row whose generation equals the
\* existing row's generation when the serialized metadata and data are
\* byte-equal to the existing row's, and the existing generation plus
\* exactly one otherwise; UpdateStatus always inserts a row with the
\* existing generation.
C12_Generation ==
  \A p \in Callers :
    Updated(p) =>
      LET new == rows[call[p].newId]
          old == rows[new.previous]
      IN  /\ new.previous = call[p].tip
          /\ call[p].op = "status" => new.generation = old.generation
          /\ call[p].op = "update" =>
               new.generation =
                 IF SubmittedEqual(call[p].obj, old)
                   THEN old.generation ELSE old.generation + 1

\* after an update that changed the spec, a spec-equal update kept the
\* generation 2, or a status update that submitted another spec did
C12_Witness ==
  \E p \in Callers :
    /\ Updated(p)
    /\ rows[call[p].newId].generation = 2
    /\ rows[call[p].tip].generation = 2
    /\ \/ call[p].op = "update"
       \/ call[p].op = "status" /\ call[p].obj.spec # rows[call[p].tip].data

\* the serialized metadata or data of two rows differ
SpecDiffers(new, old) == new.metadata # old.metadata \/ new.data # old.data

\* C13: following the previous pointers of any row back to the start of its
\* chain, generation never decreases from an older row to a newer row, and
\* it strictly increases between consecutive rows whose metadata or data
\* differ, for every history of creates, updates, deletes and re-creates.
C13_GenerationMonotone ==
  \A i \in Ids :
    rows[i].previous # 0 =>
      LET old == rows[rows[i].previous]
      IN  /\ rows[i].generation >= old.generation
          /\ SpecDiffers(rows[i], old) => rows[i].generation > old.generation

\* C13, amended: along the previous pointers generation never decreases and
\* strictly increases across spec-differing rows between consecutive rows of
\* one identity (same uid); the row of a Create, also one chained to a
\* removed row, starts again at generation 1.
C13_GenerationPerIdentity ==
  \A i \in Ids :
    /\ rows[i].create => rows[i].generation = 1
    /\ (rows[i].previous # 0 /\ rows[rows[i].previous].uid = rows[i].uid) =>
         LET old == rows[rows[i].previous]
         IN  /\ rows[i].generation >= old.generation
             /\ SpecDiffers(rows[i], old) =>
                  rows[i].generation > old.generation

\* a key was removed at generation 2 and re-created, and the new identity
\* was updated with another spec
C13_Witness ==
  \E i, j \in Ids :
    /\ rows[i].create /\ rows[i].previous # 0
    /\ rows[rows[i].previous].generation = 2
    /\ rows[j].previous = i /\ rows[j].uid = rows[i].uid
    /\ SpecDiffers(rows[j], rows[i]) /\ rows[j].generation = 2

\* C14: every row inserted by Update, UpdateStatus or Delete carries the uid
\* of the row it supersedes, so all rows of one object identity share the
\* uid assigned at its Create; a Create that follows full removal of the key
\* assigns a uid different from the removed identity's.
C14_UidPreserved ==
  \A i \in Ids :
    /\ rows[i].name # "" => rows[i].uid # 0
    /\ rows[i].previous # 0 =>
         IF rows[i].create
           THEN \A j \in KeyRows(rows[i].name) :
                  j < i => rows[j].uid # rows[i].uid
           ELSE rows[i].uid = rows[rows[i].previous].uid

\* an identity was updated and removed, and the key re-created and updated
\* again
C14_Witness ==
  \E i, j \in Ids :
    /\ rows[i].create /\ rows[i].previous # 0
    /\ rows[rows[i].previous].previous # 0
    /\ rows[j].previous = i /\ ~rows[j].create

\* the row a finished Update or Delete inserted is still the key's most
\* recent one
UpdatedAndCurrent(p) ==
  /\ Updated(p) /\ call[p].op = "update"
  /\ Max(KeyRows(call[p].obj.name)) = call[p].newId

\* C15: a Delete (an update carrying a deletion timestamp) while finalizers
\* remain inserts a row with deleted set and removed unset, and the key
\* stays live; a later update at the current resource version with no
\* finalizers inserts a row with removed set, after which Get returns
\* not-found and Create for the key succeeds.
C15_FinalizerRemoval ==
  \A p \in Callers :
    /\ (/\ UpdatedAndCurrent(p)
        /\ call[p].obj.deletionTimestamp /\ call[p].obj.finalizers
        /\ ~rows[call[p].tip].removed)
       => /\ rows[call[p].newId].deleted
          /\ ~rows[call[p].newId].removed
          /\ StrategyGet(NS, call[p].obj.name).err = "none"
          /\ AlreadyExists(<<rows[call[p].newId]>>)
    /\ (/\ UpdatedAndCurrent(p)
        /\ ~call[p].obj.finalizers
        /\ rows[call[p].tip].deleted)
       => /\ rows[call[p].newId].removed
          /\ StrategyGet(NS, call[p].obj.name).err = "notfound"
    /\ (/\ call[p].op = "create" /\ call[p].tip # 0
        /\ rows[call[p].tip].removed)
       => /\ pc[p] \in {"insert", "done"}
          /\ pc[p] = "done" =>
               /\ call[p].res = "ok"
               /\ rows[call[p].newId].previous = call[p].tip

\* the whole course: a Delete with finalizers left the key live, an update
\* without them removed it, and the Create that followed succeeded
C15_Witness ==
  \E p \in Callers :
    /\ pc[p] = "done" /\ call[p].op = "create" /\ call[p].res = "ok"
    /\ call[p].tip # 0 /\ rows[call[p].tip].removed
    /\ LET d == rows[call[p].tip].previous
       IN  /\ d # 0 /\ rows[d].deleted /\ ~rows[d].removed
           /\ rows[d].metadata.finalizers
           /\ rows[d].previous # 0 /\ ~rows[rows[d].previous].deleted

\* a row's label (absent when "") or name satisfies a selector requirement
Satisfies(sel, r) ==
  LET l == r.metadata.labels
  IN  CASE sel.op = "none" -> TRUE
        [] sel.op \in {"eq", "in"} -> l # "" /\ l \in sel.vals
        [] sel.op \in {"neq", "notin"} -> l = "" \/ l \notin sel.vals
        [] sel.op = "exists" -> l # ""
        [] sel.op = "notexists" -> l = ""
        [] sel.op = "name" -> r.name \in sel.vals

\* the ids of the live records: the most recent row of each key, not removed
LiveIds ==
  { i \in Ids : /\ rows[i].name # ""
                /\ i = Max(KeyRows(rows[i].name))
                /\ ~rows[i].removed }

\* the ids of the items of a page, read from their resourceVersions
PageIds(page) ==
  { ParseUint(page.items[k].resourceVersion) : k \in 1 .. Len(page.items) }

\* C17: for every label selector built from Equals, NotEquals, In, NotIn,
\* Exists and DoesNotExist requirements, List returns exactly the live
\* records (most recent row per key, not removed) whose labels satisfy the
\* selector, and the list's resourceVersion is the table's maximum id at the
\* time of the query.
C17_SelectorList ==
  [][(/\ reader.pc = "idle" /\ reader'.op = "list" /\ reader'.limit = 0)
       => /\ reader'.err = "none"
          /\ Len(reader'.pages) = 1
          /\ LET page == reader'.pages[1]
             IN  /\ PageIds(page) =
                      { i \in LiveIds :
                          Satisfies(reader'.sel, rows[i]) }
                 /\ Len(page.items) = Cardinality(PageIds(page))
                 /\ page.resourceVersion = FormatUint(getMaxID)]_vars

\* the ids listed on the reader's pages, and how many items the pages hold
ListedIds == UNION { PageIds(reader.pages[k]) : k \in 1 .. Len(reader.pages) }

RECURSIVE ItemCount(_)
ItemCount(pages) ==
  IF pages = <<>> THEN 0 ELSE Len(Head(pages).items) + ItemCount(Tail(pages))

\* the reader's selector holds for row i
Selected(i) == Satisfies(reader.sel, rows[i])

\* C16: calling List with limit N and then repeatedly with each returned
\* continuation token returns every record matching the selectors exactly
\* once across the pages (none skipped, none repeated) and ends with a page
\* whose continuation is empty, for every selector and also when writes are
\* interleaved between the page requests.  With writes in between, the
\* records that must appear are those live from the first page to the last.
C16_Pagination ==
  (reader.op = "list" /\ reader.pc = "done" /\ reader.limit # 0) =>
    /\ reader.err = "none"
    /\ reader.pages # <<>>
    /\ reader.pages[Len(reader.pages)].continue = ""
    /\ \A k \in 1 .. Len(reader.pages) :
         Len(reader.pages[k].items) <= reader.limit
    /\ ItemCount(reader.pages) = Cardinality(ListedIds)
    /\ \A i \in ListedIds : i \in Ids /\ Selected(i)
    /\ \A i \in LiveIds : (i <= reader.tip /\ Selected(i)) => i \in ListedIds
    /\ getMaxID = reader.tip => ListedIds = { i \in LiveIds : Selected(i) }

\* C18: the garbage collector deletes only rows whose garbage flag is true:
\* in every run of the compact and delete steps, interleaved with any
\* writes, no row with garbage = false is ever deleted.
C18_OnlyGarbageDeleted ==
  [][\A i \in Ids : i \notin Ids' => rows[i].garbage]_vars

\* the delete step has deleted the first row while the caller was writing,
\* and retained the newest garbage row
C18_Witness ==
  /\ 1 \notin Ids
  /\ \E i \in Ids : rows[i].garbage
  /\ \E i \in Ids : ~rows[i].garbage /\ rows[i].name # ""
  /\ pc["c1"] = "insert"

\* C19: Get(namespace, name) returns not-found exactly when the key has no
\* row or its most recent row has removed set; otherwise it returns the most
\* recent row of the key, also while compaction is marking rows of that key
\* as garbage.
C19_GetMostRecent ==
  [][(reader.pc = "idle" /\ reader'.op = "get") =>
       LET ks == KeyRows(reader'.name)
       IN  IF ks = {} \/ rows[Max(ks)].removed
             THEN reader'.err = "notfound"
             ELSE /\ reader'.err = "none"
                  /\ reader'.obj.resourceVersion = FormatUint(Max(ks))
                  /\ reader'.obj.name = reader'.name]_vars

\* a store call, a read call and a Watch that begin in this step with a
\* context that carries no partition id
CallBegins(p) == pc[p] = "idle" /\ pc'[p] # "idle"

ReadBegins == reader.pc \in {"idle", "paging"} /\ reader' # reader

WatchBegins(x) == w[x].pc = "none" /\ w'[x].pc # "none"

\* C20: on a strategy with partitionIDRequired, each of Get, GetToList, List,
\* Watch, Create, Update, UpdateStatus and Delete called with a context
\* without partition id returns the partition-required error; the call
\* returns nothing read from the table (no object, no page, no tip), no row
\* is written, no sequence id is consumed and no subscription is made
C20_PartitionRequired ==
  [][partitionIDRequired =>
       /\ \A p \in Callers :
            CallBegins(p) /\ call'[p].partition = "" =>
              /\ pc'[p] = "done"
              /\ call'[p].op \in {"create", "update", "status"}
              /\ call'[p].res = "partition"
              /\ call'[p].tip = 0
              /\ call'[p].rec = ZeroRecord
              /\ call'[p].out = ZeroObject
              /\ rows' = rows /\ seq' = seq /\ trigger' = trigger
       /\ ReadBegins /\ reader'.partition = "" =>
            /\ reader'.pc = "done"
            /\ reader'.op \in {"get", "gettolist", "list"}
            /\ reader'.err = "partition"
            /\ reader'.obj = ZeroObject
            /\ reader'.pages = reader.pages
            /\ reader'.tip = reader.tip
            /\ rows' = rows
       /\ \A x \in Watchers :
            WatchBegins(x) /\ w'[x].partition = "" =>
              /\ w'[x].pc = "refused"
              /\ w'[x].err = "partition"
              /\ w'[x].subTip = 0
              /\ bc' = bc /\ readers' = readers
              /\ rows' = rows]_vars

\* a writer, a reader and a watcher were each refused for the missing
\* partition id, on a table with rows they could have read
C20_Witness ==
  /\ partitionIDRequired
  /\ Ids # {}
  /\ pc["c1"] = "done" /\ call["c1"].res = "partition"
  /\ call["c1"].op = "status"
  /\ reader.pc = "done" /\ reader.err = "partition"
  /\ reader.op = "list" /\ Len(reader.pages) = 1
  /\ w["w1"].pc = "refused"
  /\ bc.consumers = {}

\* C24: the row a spec-path Update or Delete inserts has the status of the
\* existing row, whatever status the submitted object carries
C24_StatusCarried ==
  \A p \in Callers :
    Updated(p) /\ call[p].op = "update" =>
      LET new == rows[call[p].newId]
          old == rows[new.previous]
      IN  new.status = old.status

ResumesAfter ==
  IF reader.pc = "paging" /\ IsCont(reader.cont)
    THEN DecodeCont(reader.cont) ELSE 0

\* C26: a Get, GetToList or List (a List resumed with a continuation token
\* included) whose after is non-zero and below the compaction horizon fails
\* with resource-expired and returns no rows
C26_ExpiredQuery ==
  [][ReadBegins /\ ResumesAfter # 0 /\ ResumesAfter < compaction =>
        /\ reader'.pc = "done"
        /\ reader'.err = "expired"
        /\ reader'.pages = reader.pages]_vars

\* the update statement of a compact batch runs in this step, over the ids
\* from BatchFrom up to, not including, BatchTo
BatchUpdated == gc.pc = "update" /\ gc'.pc = "scan"

BatchFrom == gc.lastSuccess

BatchTo == gc'.lastSuccess

InBatch(i) == i >= BatchFrom /\ i < BatchTo

\* row i is the previous of a row in the batch, or a tombstone in the batch
SupersededOrTombstone(i) ==
  \/ \E j \in Ids : InBatch(j) /\ rows[j].previous = i
  \/ InBatch(i) /\ rows[i].removed

C28_TickSkips ==
  [][/\ gc.pc = "wait" /\ gc' # gc /\ loop.shared < compactRetainCount =>
          gc'.pc = "wait" /\ rows' = rows /\ compaction' = compaction
     /\ gc.pc = "mark" /\ gc' # gc /\ gc.next < compaction =>
          gc'.pc = "wait" /\ rows' = rows /\ compaction' = compaction]_vars

\* readEvents handles the first record of its batch in this step
LoopHandles == loop.pc = "send" /\ loop' # loop

\* C22: the watch loop publishes consecutive ids: once initialised, its
\* last-seen id moves only by publishing the record whose id is last-seen
\* plus one.  When the next record read has a larger id, nothing is
\* published, the fill sentinel is inserted at last-seen plus one, last-seen
\* stays and the pass ends
C22_ConsecutivePublish ==
  [][/\ ~loop.init /\ loop'.lastID # loop.lastID =>
          /\ LoopHandles
          /\ Head(loop.batch).id = loop.lastID + 1
          /\ loop'.lastID = loop.lastID + 1
          /\ rows' = rows
     /\ LoopHandles /\ Head(loop.batch).id > loop.lastID + 1 =>
          /\ loop'.lastID = loop.lastID
          /\ loop'.pc = "wait"
          /\ bc' = bc
          /\ DOMAIN rows' = Ids \cup {loop.lastID + 1}
          /\ rows'[loop.lastID + 1] = FillRecord(loop.lastID + 1)]_vars

\* an id a refused insert left unused was closed by a fill, and the loop
\* has published the fill and the record after it
C22_Witness ==
  \E i \in Ids :
    /\ rows[i] = FillRecord(i)
    /\ (i + 1) \in Ids /\ rows[i + 1].name # ""
    /\ ~loop.init /\ loop.lastID = i + 1

\* the ids the writers and the fills of SpecLive can give to rows
LiveRowIds == 3 .. (2 + MaxLive)

\* C23: once the watch loop has initialised its last-seen id, every record
\* committed above it is eventually published, whether or not the insert's
\* signal found the trigger channel full and whatever ids below it refused
\* inserts have consumed
C23_EventuallyPublished ==
  \A i \in LiveRowIds :
    (~loop.init /\ i \in Ids /\ i > loop.lastID) ~> (loop.lastID >= i)

\* two records were committed since the loop last woke, so the second
\* signal found the trigger full, and an id between last-seen and the
\* newest record was consumed by a refused insert
C23_Witness ==
  /\ ~loop.init /\ loop.pc = "wait" /\ trigger = 1
  /\ Cardinality({ i \in Ids : i > loop.lastID }) >= 2
  /\ \E g \in LiveRowIds : g \notin Ids /\ g > loop.lastID /\ g < getMaxID

\* C21: no failure of a background task's step drives the process into a
\* crash state: the gc goroutine never releases the compaction lock it does
\* not hold
C21_NoCrash == gc.pc # "crashed"

\* the gc goroutine is over: it returned, or the process is gone
GcOver == gc.pc \in {"stopped", "crashed"}

\* C29: after the context is cancelled the gc task terminates: it does not
\* go on looping, whatever step it was at
C29_GcTerminates == ctxDone ~> GcOver

\* the watch loop sits at its select with nothing to read, and a watcher is
\* subscribed to the broadcaster
IdleSubscribed ==
  /\ loop.pc = "wait"
  /\ ~loop.init
  /\ trigger = 0
  /\ since(loop.lastID) = <<>>
  /\ bc.consumers # {}

\* the broadcaster is handing out the bookmark for the loop's last-seen id
BookmarkSent == bc.item = <<BookmarkRecord(loop.lastID)>>

\* C30: an idle watch loop with a subscribed watcher eventually hands the
\* broadcaster a bookmark record that carries its last-seen id, unless the
\* table stops being idle first
C30_BookmarkWhenIdle == IdleSubscribed ~> (BookmarkSent \/ ~IdleSubscribed)

\* C39: the in-memory compaction horizon never decreases, whichever of Start,
\* the gc and a marker read by the watch loop assigns it
C39_HorizonMonotone == [][compaction' >= compaction]_vars

\* the watch loop has published a marker whose id is below the horizon
C39_Witness ==
  \E i \in Ids :
    /\ IsMarker(rows[i])
    /\ ParseUint(rows[i].namespace) < compaction
    /\ ~loop.init
    /\ loop.lastID >= i

\* C35: Start sets the horizon to the table's MAX(id), and the watch loop
\* builds its last-seen id from 0 by reading the rows: last-seen moves only
\* to the id of a record readEvents handles, rows present at start included
C35_RebuildFromZero ==
  [][/\ ~started /\ started' => compaction' = getMaxID
     /\ loop'.lastID # loop.lastID =>
          /\ LoopHandles
          /\ Head(loop.batch).id = loop'.lastID]_vars

\* no two rows have the same non-null previous
NoSharedPrevious ==
  \A i, j \in Ids :
    i # j /\ rows[i].previous # 0 => rows[i].previous # rows[j].previous

\* C34: deleteCorrupted terminates on every table, and when it has returned
\* without error no two remaining rows share a non-null previous
C34_RecoveryTerminates ==
  /\ <>(recovery = "done")
  /\ [](recovery = "done" => NoSharedPrevious)

\* deleteCorrupted has returned after it deleted two rows and marked the
\* rows of their key removed
C34_Witness ==
  /\ recovery = "done"
  /\ Cardinality(Ids) <= MaxRecover - 2
  /\ \E i \in Ids : rows[i].removed

\* a row without the two columns that are written after its insert
Inserted(rec) == [rec EXCEPT !.latest = FALSE, !.garbage = FALSE]

\* C36: a row that stays in the table keeps the value of every column but
\* latest and garbage, whichever operation of the engine takes the step
C36_RowsImmutable ==
  [][\A i \in Ids \cap DOMAIN rows' :
       Inserted(rows'[i]) = Inserted(rows[i])]_vars

\* the watch holds the compaction read lock: from Watch's validation until
\* initializeWatch has returned
HoldsReadLock(x) ==
  w[x].pc = "watching" /\ w[x].catchUp \in {"get", "send"}

WatchOver(x) ==
  /\ w[x].merger = "done"
  /\ x \notin bc.consumers
  /\ w[x].subClosed
  /\ w[x].resultClosed

\* C31: after a watch's context is cancelled the watch is eventually over,
\* whatever the catch-up, the merger and the broadcaster were doing
C31_CancelledWatchEnds ==
  \A x \in Watchers :
    w[x].cancelled ~> WatchOver(x)

\* a watch that was stopped while its merger waited in result <- rec with a
\* record no client received, and that is over
C31_Witness ==
  \E x \in Watchers :
    /\ w[x].cancelled
    /\ WatchOver(x)
    /\ w[x].lastID # 0
    /\ \A k \in DOMAIN w[x].delivered : w[x].delivered[k].id # w[x].lastID

\* the watcher has a subscription, registered or not
Subscribed(x) == w[x].pc \notin {"none", "refused"}

\* C33: once the broadcaster is shut down, by its context or by a call of
\* Close, no consumer is registered, the channel of every subscription is
\* closed, whether it was made before the shutdown or after it, and no
\* subscriber channel receives another item
C33_ShutdownClosesAll ==
  /\ [](bc.closed =>
          /\ bc.consumers = {}
          /\ ~bc.locked
          /\ \A x \in Watchers : Subscribed(x) => w[x].subClosed)
  /\ [][bc.closed =>
          \A x \in Watchers : w'[x].buf = w[x].buf \/ w'[x].buf = <<>>]_vars

\* the broadcaster was shut down by its context while a watch that had
\* delivered its catch-up was registered: the subscription is closed, though
\* neither the merger nor the catch-up has closed it
C33_Witness ==
  /\ bc.closed
  /\ bc.stopped
  /\ ctxDone
  /\ \E x \in Watchers :
       /\ w[x].subClosed
       /\ ~w[x].cancelled
       /\ w[x].catchUp = "done"
       /\ w[x].merger = "run"
       /\ w[x].delivered # <<>>

\* C37: no subscriber channel and no producer channel is closed more than
\* once, and a fan-out in progress has no closed subscriber channel left to
\* send on
C37_ClosesOnce ==
  /\ bc.closes <= 1
  /\ \A x \in Watchers : w[x].subCloses <= 1
  /\ bc.locked => \A x \in bc.todo : ~w[x].subClosed

\* the broadcaster was closed from outside and then stopped by its context,
\* and a subscription it had closed was closed again by its merger and by
\* the failed catch-up
C37_Witness ==
  /\ bc.closes = 1
  /\ bc.stopped
  /\ ctxDone
  /\ \E x \in Watchers :
       /\ w[x].subCloses = 1
       /\ w[x].cancelled
       /\ w[x].catchUp = "done"
       /\ ~w[x].more
       /\ w[x].queue = <<>>
       /\ w[x].delivered = <<>>
       /\ w[x].merger = "done"

\* C38: the watch loop never sends on the producer channel after the
\* broadcaster closed it
C38_NoSendOnClosed == loop.pc # "panic"

\* the most recent row of its key, with removed unset
LiveTip(id) ==
  /\ rows[id].name # ""
  /\ ~rows[id].removed
  /\ id = Max(KeyRows(rows[id].name))

\* Strategy.Get and an unbounded Strategy.list return the row's object
Returned(id) ==
  LET g == StrategyGet(NS, rows[id].name)
      l == list(NS, 0, "", NoSel)
  IN  /\ g.err = "none"
      /\ g.obj.resourceVersion = FormatUint(id)
      /\ l.err = "none"
      /\ \E k \in DOMAIN l.items :
           /\ l.items[k].name = rows[id].name
           /\ l.items[k].resourceVersion = FormatUint(id)

\* C40: the most recent row of a key, when its removed is unset, is never
\* garbage and is what Get and List return for the key, and no step of a
\* writer, of the compaction or of the deletion removes it or marks it
C40_LiveSurvives ==
  /\ [](\A id \in Ids : LiveTip(id) => ~rows[id].garbage /\ Returned(id))
  /\ [][\A id \in Ids :
          LiveTip(id) => id \in DOMAIN rows' /\ ~rows'[id].garbage]_vars

\* a key that was deleted and created again: the compaction has marked the
\* tombstone the live row points to, or the deletion has taken it
C40_Witness ==
  \E id \in Ids :
    /\ LiveTip(id)
    /\ rows[id].previous # 0
    /\ rows[id].previous \in Ids => rows[rows[id].previous].garbage
    /\ gc.pc = "wait"
    /\ gc.lastSuccess > id

====
